---- MODULE Spec2Model ----
(***************************************************************************)
(* Model of the spatial-jobs-index backend (src/backend/app): the          *)
(* process-wide TTL cache (occupation_cache.py), the cached occupation     *)
(* lookup (services.py, repositories/occupation.py), the request-scoped    *)
(* database session (database.py) and the HTTP handlers' error paths       *)
(* (main.py).                                                              *)
(*                                                                         *)
(* Python values are tagged records, so that None, strings and lists can   *)
(* be compared with each other.  A Python string is a sequence of pieces:  *)
(* single characters where the code inspects the characters (names, codes, *)
(* geoids), whole fragments where it only concatenates (keys, messages).   *)
(***************************************************************************)
EXTENDS Integers, Sequences, FiniteSets, TLC

VARIABLES
    cache,          \* SimpleCache._cache: dict key -> (value, expiry)
    now,            \* the value time.time() returns
    ticks,          \* number of clock advances so far (bounded)
    ret,            \* the last completed call: what it was given and what it returned
    lastSet,        \* history: per key, the most recent set() and whether clear() ran since
    calls,          \* history: the calls of wrapped operations made so far (bounded)
    TESTING,        \* os.environ["TESTING"] (Unset when absent)
    table,          \* occupation_codes: occupation_code -> occupation_name
    dbChanges,      \* number of external loads of occupation_codes so far (bounded)
    pc,             \* per request thread: the line of SimpleCache it is at
    frame,          \* per request thread: the locals of its SimpleCache call
    done,           \* per request thread: number of cache calls started (bounded)
    everSet,        \* history: per key, the values that set() calls have stored
    responses,      \* the HTTP responses sent so far, each with the request that caused it
    served,         \* number of HTTP requests handled so far (bounded)
    engine,         \* database.engine
    session_maker,  \* database.session_maker
    gens,           \* the get_db_session generators handed to consumers
    sessions,       \* per created session: how many times close() ran on it
    isochrone_table,\* jsi_data.isochrone_table: its rows in physical storage order
    environ,        \* os.environ: the variables DatabaseConfig.from_env reads
    limiter_storage,\* app.state.limiter: per (client, route) the hits and expiry of its window
    minute,         \* history: per (client, route) the start of its minute and the requests in it
    shadow,         \* history: SimpleCache._cache as it would be without the requests that failed
    tracts,         \* the rows a spatial query reads: geoid and the GeoJSON text of the geometry
    correlation_id_var, \* logging_config.correlation_id_var, per request task (its context)
    dispatches,     \* per request task: where CorrelationIdMiddleware.dispatch is and what it holds
    log             \* the records the StructuredLoggers have written (bounded)

cacheVars == <<cache, now, ticks, ret, lastSet, calls>>
svcVars   == <<TESTING, table, dbChanges>>
thrVars   == <<pc, frame, done, everSet>>
httpVars  == <<responses, served>>
dbVars    == <<engine, session_maker, gens, sessions>>
reqVars   == <<tracts, correlation_id_var, dispatches, log>>
extVars   == <<isochrone_table, environ, limiter_storage, minute, shadow, reqVars>>
vars      == <<cache, now, ticks, ret, lastSet, calls, TESTING, table, dbChanges, pc, frame, done, everSet,
               responses, served, engine, session_maker, gens, sessions,
               isochrone_table, environ, limiter_storage, minute, shadow,
               tracts, correlation_id_var, dispatches, log>>

----------------------------------------------------------------------------
(* Bounds of the model *)

MaxTicks == 3

MaxCalls == 2

MaxRequests == 2

MaxFeatures == 2

MaxGens == 3

MaxWrapCalls == 3

WrapTtl == 2

MaxDbChanges == 1

MaxRows == 3

MaxKeys == 2

MaxSideHits == 1

MaxOver == 2

MaxLimitTicks == 2
\* log records written per behaviour
MaxLog == 1
\* requests dispatched per task
MaxDispatches == 2

----------------------------------------------------------------------------
(* Python values *)

PyNone == [tag |-> "None"]

PyStr(s) == [tag |-> "str", s |-> s]

PyList(items) == [tag |-> "list", items |-> items]

(* dict operations, each one atomic in CPython *)
EmptyDict == [k \in {} |-> PyNone]

DictHas(d, key) == key \in DOMAIN d

DictPut(d, key, item) ==
    [k \in (DOMAIN d) \cup {key} |-> IF k = key THEN item ELSE d[k]]

DictDel(d, key) == [k \in (DOMAIN d) \ {key} |-> d[k]]

----------------------------------------------------------------------------
(* occupation_cache.py: SimpleCache *)

(* line 20: the entry is served while time.time() < expiry *)
FreshAtOrBefore(expiry, t) == t <= expiry

Fresh(expiry, t) == t < expiry

(* get(key) at clock t: the value returned and the dict left behind *)
SimpleCacheGet(d, key, t) ==
    IF DictHas(d, key)
    THEN IF Fresh(d[key].expiry, t)
         THEN [value |-> d[key].value, cache |-> d]
         ELSE [value |-> PyNone, cache |-> DictDel(d, key)]
    ELSE [value |-> PyNone, cache |-> d]

(* set(key, value, ttl_seconds) at clock t *)
SimpleCacheSetKeepExpiry(d, key, value, ttl_seconds, t) ==
    DictPut(d, key, [value |-> value,
                     expiry |-> IF DictHas(d, key) THEN d[key].expiry
                                ELSE t + ttl_seconds])

SimpleCacheSet(d, key, value, ttl_seconds, t) ==
    DictPut(d, key, [value |-> value, expiry |-> t + ttl_seconds])

(* clear() *)
SimpleCacheClearExpired(d) ==
    [k \in {j \in DOMAIN d : Fresh(d[j].expiry, now)} |-> d[k]]

SimpleCacheClear(d) == EmptyDict

----------------------------------------------------------------------------
(* The parts of the state a specification does not use stay as constructed *)

Unset == "<unset>"

Threads == {"t1", "t2"}

NoFrame == [op |-> "none", key |-> <<>>, value |-> PyNone, ttl |-> 0,
            expiry |-> 0, result |-> PyNone]

NoCall == [op |-> "init", key |-> <<>>, value |-> PyNone, ttl |-> 0, at |-> 0,
           pre |-> EmptyDict]

InitClock == now = 0 /\ ticks = 0

InitSvc == TESTING = Unset /\ table = EmptyDict /\ dbChanges = 0

InitThr ==
    /\ pc = [t \in Threads |-> "idle"]
    /\ frame = [t \in Threads |-> NoFrame]
    /\ done = [t \in Threads |-> 0]
    /\ everSet = EmptyDict

InitHttp == responses = <<>> /\ served = 0

InitDb == engine = PyNone /\ session_maker = PyNone /\ gens = <<>> /\ sessions = <<>>

EnvNames == {"USERNAME", "PASS", "URL", "DB"}

Tasks == {"task1", "task2"}

NoDispatch == [pc |-> "idle", n |-> 0, header |-> PyNone, correlation_id |-> PyNone,
               generated |-> FALSE, response |-> PyNone, seen |-> PyNone]

InitExt ==
    /\ isochrone_table = <<>>
    /\ environ = [name \in EnvNames |-> PyNone]
    /\ limiter_storage = EmptyDict
    /\ minute = EmptyDict
    /\ shadow = EmptyDict
    /\ tracts = <<>>
    /\ correlation_id_var = [task \in Tasks |-> PyNone]
    /\ dispatches = [task \in Tasks |-> NoDispatch]
    /\ log = <<>>

----------------------------------------------------------------------------
(* SpecCache: one caller driving a SimpleCache through get, set and clear   *)

Keys == {<<"k1">>, <<"k2">>}

Values == {PyNone, PyStr("v1"), PyStr("v2")}

TTLs == {0, 1, 2}

InitCache ==
    /\ cache = EmptyDict
    /\ InitClock
    /\ ret = NoCall
    /\ lastSet = EmptyDict
    /\ calls = <<>>
    /\ InitSvc /\ InitThr /\ InitHttp /\ InitDb /\ InitExt

Get(key) ==
    LET r == SimpleCacheGet(cache, key, now) IN
    /\ cache' = r.cache
    /\ ret' = [op |-> "get", key |-> key, value |-> r.value, ttl |-> 0, at |-> now,
               pre |-> cache]
    /\ UNCHANGED <<now, ticks, lastSet, calls, svcVars, thrVars, httpVars, dbVars, extVars>>

Set(key, value, ttl_seconds) ==
    /\ cache' = SimpleCacheSet(cache, key, value, ttl_seconds, now)
    /\ ret' = [op |-> "set", key |-> key, value |-> value, ttl |-> ttl_seconds,
               at |-> now, pre |-> cache]
    /\ lastSet' = DictPut(lastSet, key,
                          [value |-> value, at |-> now, expiry |-> now + ttl_seconds,
                           cleared |-> FALSE])
    /\ UNCHANGED <<now, ticks, calls, svcVars, thrVars, httpVars, dbVars, extVars>>

Clear ==
    /\ cache' = SimpleCacheClear(cache)
    /\ ret' = [op |-> "clear", key |-> <<>>, value |-> PyNone, ttl |-> 0, at |-> now,
               pre |-> cache]
    /\ lastSet' = [k \in DOMAIN lastSet |-> [lastSet[k] EXCEPT !.cleared = TRUE]]
    /\ UNCHANGED <<now, ticks, calls, svcVars, thrVars, httpVars, dbVars, extVars>>

(* the clock moves on by one second between two calls *)
Tick ==
    /\ ticks < MaxTicks
    /\ now' = now + 1
    /\ ticks' = ticks + 1
    /\ ret' = [op |-> "tick", key |-> <<>>, value |-> PyNone, ttl |-> 0, at |-> now,
               pre |-> cache]
    /\ UNCHANGED <<cache, lastSet, calls, svcVars, thrVars, httpVars, dbVars, extVars>>

NextCache ==
    \/ \E key \in Keys : Get(key)
    \/ \E key \in Keys, value \in Values, ttl_seconds \in TTLs :
          Set(key, value, ttl_seconds)
    \/ Clear
    \/ Tick

SpecCache == InitCache /\ [][NextCache]_vars

(* C4: get(key) returns the stored value, and leaves the dict alone, when the
   clock is strictly before the entry's expiry; at or after the expiry it
   returns None and removes that entry and no other, so a value is only ever
   returned while it is unexpired; no call but get and clear removes an entry. *)
C4_GetHonoursExpiry ==
    /\ ret.op = "get" =>
          LET key == ret.key
              pre == ret.pre
          IN  /\ (key \in DOMAIN pre /\ ret.at < pre[key].expiry) =>
                    (ret.value = pre[key].value /\ cache = pre)
              /\ (key \in DOMAIN pre /\ ret.at >= pre[key].expiry) =>
                    /\ ret.value = PyNone
                    /\ DOMAIN cache = (DOMAIN pre) \ {key}
                    /\ \A k \in DOMAIN cache : cache[k] = pre[k]
              /\ key \notin DOMAIN pre => (ret.value = PyNone /\ cache = pre)
    /\ ret.op \in {"set", "tick"} => (DOMAIN ret.pre) \subseteq (DOMAIN cache)

(* a get at exactly the expiry instant of a stored value found it expired *)
C4_Witness ==
    /\ ret.op = "get"
    /\ ret.key \in DOMAIN ret.pre
    /\ ret.at = ret.pre[ret.key].expiry
    /\ ret.pre[ret.key].value # PyNone
    /\ ret.value = PyNone
    /\ ret.key \notin DOMAIN cache

(* C5: set(key, value, ttl) stores (value, now + ttl) under key, replacing the
   value and the expiry of any entry already there and leaving every other
   key's entry as it was; a get of the key before that expiry, with no clear in
   between, returns the value of the most recent set. *)
C5_SetStoresAndOverwrites ==
    /\ ret.op = "set" =>
          /\ DOMAIN cache = (DOMAIN ret.pre) \cup {ret.key}
          /\ cache[ret.key] = [value |-> ret.value, expiry |-> ret.at + ret.ttl]
          /\ \A k \in (DOMAIN ret.pre) \ {ret.key} : cache[k] = ret.pre[k]
    /\ (/\ ret.op = "get"
        /\ ret.key \in DOMAIN lastSet
        /\ ~lastSet[ret.key].cleared
        /\ ret.at < lastSet[ret.key].expiry) => ret.value = lastSet[ret.key].value

(* a set replaced an entry that had another value and another expiry, while
   the other key held an entry *)
C5_Witness ==
    /\ ret.op = "set"
    /\ ret.key \in DOMAIN ret.pre
    /\ ret.pre[ret.key].value # ret.value
    /\ ret.pre[ret.key].expiry # ret.at + ret.ttl
    /\ \E k \in DOMAIN ret.pre : k # ret.key

(* C6: clear() leaves no entry, and from then on get returns None for every
   key, whatever time to live its entry had left, until the key is set again. *)
C6_ClearRemovesAll ==
    /\ ret.op = "clear" => DOMAIN cache = {}
    /\ (/\ ret.op = "get"
        /\ (ret.key \in DOMAIN lastSet => lastSet[ret.key].cleared)) =>
          ret.value = PyNone

(* a get after a clear found nothing for a key whose value had time left *)
C6_Witness ==
    /\ ret.op = "get"
    /\ ret.key \in DOMAIN lastSet
    /\ lastSet[ret.key].cleared
    /\ lastSet[ret.key].value # PyNone
    /\ ret.at < lastSet[ret.key].expiry
    /\ ret.value = PyNone

----------------------------------------------------------------------------
(* SpecConc: request threads calling get, set and clear on the process-wide
   cache.  SimpleCache takes no lock, so a thread can be preempted between any
   two lines of get and set; each line's dict operation is atomic. *)

ConcKeys == {<<"get_occupations_with_names">>}

ConcValues == {PyStr("v1"), PyStr("v2")}

ConcTTLs == {0, 1}

InitConc ==
    /\ cache = EmptyDict
    /\ InitClock
    /\ ret = NoCall /\ lastSet = EmptyDict /\ calls = <<>>
    /\ InitSvc /\ InitThr /\ InitHttp /\ InitDb /\ InitExt

Callable(t) == pc[t] \in {"idle", "returned"} /\ done[t] < MaxCalls

ThreadStep(t, line, fr) ==
    /\ pc' = [pc EXCEPT ![t] = line]
    /\ frame' = [frame EXCEPT ![t] = fr]

ConcRest == UNCHANGED <<now, ticks, ret, lastSet, calls, svcVars, httpVars, dbVars, extVars>>

(* a thread enters get(key) *)
CallGet(t, key) ==
    /\ Callable(t)
    /\ ThreadStep(t, "get18", [NoFrame EXCEPT !.op = "get", !.key = key])
    /\ done' = [done EXCEPT ![t] = @ + 1]
    /\ UNCHANGED <<cache, everSet>> /\ ConcRest

(* line 18: if key in self._cache *)
Get18(t) ==
    /\ pc[t] = "get18"
    /\ IF DictHas(cache, frame[t].key)
       THEN ThreadStep(t, "get19", frame[t])
       ELSE ThreadStep(t, "returned", [frame[t] EXCEPT !.result = PyNone])
    /\ UNCHANGED <<cache, done, everSet>> /\ ConcRest

(* line 19: value, expiry = self._cache[key]; KeyError when the key is gone *)
Get19(t) ==
    /\ pc[t] = "get19"
    /\ IF DictHas(cache, frame[t].key)
       THEN ThreadStep(t, "get20", [frame[t] EXCEPT
                                      !.value = cache[frame[t].key].value,
                                      !.expiry = cache[frame[t].key].expiry])
       ELSE ThreadStep(t, "KeyError", frame[t])
    /\ UNCHANGED <<cache, done, everSet>> /\ ConcRest

(* lines 20-21: if time.time() < expiry: return value *)
Get20(t) ==
    /\ pc[t] = "get20"
    /\ IF Fresh(frame[t].expiry, now)
       THEN ThreadStep(t, "returned", [frame[t] EXCEPT !.result = frame[t].value])
       ELSE ThreadStep(t, "get24", frame[t])
    /\ UNCHANGED <<cache, done, everSet>> /\ ConcRest

(* lines 24-25: del self._cache[key]; return None; KeyError when the key is gone *)
Get24(t) ==
    /\ pc[t] = "get24"
    /\ IF DictHas(cache, frame[t].key)
       THEN /\ cache' = DictDel(cache, frame[t].key)
            /\ ThreadStep(t, "returned", [frame[t] EXCEPT !.result = PyNone])
       ELSE /\ cache' = cache
            /\ ThreadStep(t, "KeyError", frame[t])
    /\ UNCHANGED <<done, everSet>> /\ ConcRest

(* a thread enters set(key, value, ttl_seconds) *)
CallSet(t, key, value, ttl_seconds) ==
    /\ Callable(t)
    /\ ThreadStep(t, "set29", [NoFrame EXCEPT !.op = "set", !.key = key,
                                              !.value = value, !.ttl = ttl_seconds])
    /\ done' = [done EXCEPT ![t] = @ + 1]
    /\ UNCHANGED <<cache, everSet>> /\ ConcRest

(* line 29: expiry = time.time() + ttl_seconds *)
Set29(t) ==
    /\ pc[t] = "set29"
    /\ ThreadStep(t, "set30", [frame[t] EXCEPT !.expiry = now + frame[t].ttl])
    /\ UNCHANGED <<cache, done, everSet>> /\ ConcRest

(* line 30: self._cache[key] = (value, expiry) *)
Set30(t) ==
    /\ pc[t] = "set30"
    /\ cache' = DictPut(cache, frame[t].key,
                        [value |-> frame[t].value, expiry |-> frame[t].expiry])
    /\ everSet' = DictPut(everSet, frame[t].key,
                          (IF DictHas(everSet, frame[t].key)
                           THEN everSet[frame[t].key] ELSE {}) \cup {frame[t].value})
    /\ ThreadStep(t, "returned", frame[t])
    /\ UNCHANGED done /\ ConcRest

(* line 34: self._cache.clear(), one atomic dict operation *)
CallClear(t) ==
    /\ Callable(t)
    /\ cache' = SimpleCacheClear(cache)
    /\ ThreadStep(t, "returned", [NoFrame EXCEPT !.op = "clear"])
    /\ done' = [done EXCEPT ![t] = @ + 1]
    /\ UNCHANGED everSet /\ ConcRest

(* the clock moves on while the threads run *)
TickConc ==
    /\ ticks < MaxTicks
    /\ now' = now + 1
    /\ ticks' = ticks + 1
    /\ UNCHANGED <<cache, ret, lastSet, calls, svcVars, thrVars, httpVars, dbVars, extVars>>

NextConc ==
    \/ \E t \in Threads, key \in ConcKeys : CallGet(t, key)
    \/ \E t \in Threads : Get18(t)
    \/ \E t \in Threads : Get19(t)
    \/ \E t \in Threads : Get20(t)
    \/ \E t \in Threads : Get24(t)
    \/ \E t \in Threads, key \in ConcKeys, value \in ConcValues, ttl_seconds \in ConcTTLs :
          CallSet(t, key, value, ttl_seconds)
    \/ \E t \in Threads : Set29(t)
    \/ \E t \in Threads : Set30(t)
    \/ \E t \in Threads : CallClear(t)
    \/ TickConc

SpecConc == InitConc /\ [][NextConc]_vars

(* C3: under every interleaving of get, set and clear calls from several
   request threads no call fails, and every get returns None or a value that a
   set stored for its key. *)
C3_NoCorruption ==
    \A t \in Threads :
        /\ pc[t] # "KeyError"
        /\ (pc[t] = "returned" /\ frame[t].op = "get") =>
              \/ frame[t].result = PyNone
              \/ /\ DictHas(everSet, frame[t].key)
                 /\ frame[t].result \in everSet[frame[t].key]

----------------------------------------------------------------------------
(* SpecHttp: the request handlers of main.py.  A handler's service call either
   returns a number of items or raises an exception carrying a message. *)

Returns(n) == [kind |-> "returns", n |-> n, message |-> <<>>]

Raises(message) == [kind |-> "raises", n |-> 0, message |-> message]

ExceptionMessages ==
    { <<"connection to server at 'db.internal:5432', database 'prod_db' failed">>,
      <<"password authentication failed for user 'admin'">> }

Outcomes ==
    {Returns(n) : n \in 0..MaxFeatures} \cup {Raises(e) : e \in ExceptionMessages}

Categories == {<<"11-1021">>, <<"ZZZZ">>}

Geoids == {<<"4", "8">>, <<"A", "1">>, <<"4", "-">>}

(* str.isdigit(): at least one character and every character a digit *)
DigitChars == {"0", "1", "2", "3", "4", "5", "6", "7", "8", "9"}

IsDigitFirst(str) == Len(str) > 0 /\ str[1] \in DigitChars

IsDigit(str) == Len(str) > 0 /\ \A i \in 1..Len(str) : str[i] \in DigitChars

(* whether the string text occurs in the string body *)
Contains(body, text) ==
    \E i \in 0..(Len(body) - Len(text)) :
        \A j \in 1..Len(text) : body[i + j] = text[j]

Response(endpoint, param, outcome, called, status, body) ==
    [endpoint |-> endpoint, param |-> param, outcome |-> outcome, called |-> called,
     status |-> status, body |-> body]

(* the detail dict of get_occupation_ids and get_geojson, main.py 110-114 *)
ErrorDetail(e) ==
    <<"{message: ", "Internal server error: ">> \o e
        \o <<", error_code: INTERNAL_SERVER_ERROR, context: {}}">>

(* the detail string of the other handlers, main.py 169 *)
ErrorString(e) == <<"Internal server error: ">> \o e

(* the body of a 200: the collection built from the items the service returned *)
Ok(outcome) == <<"collection of ", ToString(outcome.n), " items">>

(* main.py 104-115 and 123-140: no 404, every exception becomes a 500 *)
ListHandlerNotFoundIfEmpty(endpoint, outcome, detail) ==
    IF outcome.kind = "raises"
    THEN Response(endpoint, <<>>, outcome, TRUE, 500, detail)
    ELSE IF outcome.n = 0
         THEN Response(endpoint, <<>>, outcome, TRUE, 404, <<"No data found">>)
         ELSE Response(endpoint, <<>>, outcome, TRUE, 200, Ok(outcome))

ListHandler(endpoint, outcome, detail) ==
    IF outcome.kind = "raises"
    THEN Response(endpoint, <<>>, outcome, TRUE, 500, detail)
    ELSE Response(endpoint, <<>>, outcome, TRUE, 200, Ok(outcome))

(* main.py 149-169 and 269-288: 404 on no features, passed through by
   "except HTTPException: raise"; every other exception becomes a 500 *)
KeyHandlerCatchAll(endpoint, param, outcome, notFound) ==
    IF outcome.kind = "raises"
    THEN Response(endpoint, param, outcome, TRUE, 500, ErrorString(outcome.message))
    ELSE IF outcome.n = 0
         THEN Response(endpoint, param, outcome, TRUE, 500,
                       ErrorString(notFound \o param))
         ELSE Response(endpoint, param, outcome, TRUE, 200, Ok(outcome))

KeyHandler(endpoint, param, outcome, notFound) ==
    IF outcome.kind = "raises"
    THEN Response(endpoint, param, outcome, TRUE, 500, ErrorString(outcome.message))
    ELSE IF outcome.n = 0
         THEN Response(endpoint, param, outcome, TRUE, 404, notFound \o param)
         ELSE Response(endpoint, param, outcome, TRUE, 200, Ok(outcome))

Send(resp) ==
    /\ served' = served + 1
    /\ responses' = Append(responses, resp)
    /\ UNCHANGED <<cacheVars, svcVars, thrVars, dbVars, extVars>>

get_occupation_ids(outcome) ==
    /\ served < MaxRequests
    /\ Send(ListHandler("/occupation_ids", outcome, ErrorDetail(outcome.message)))

get_geojson(outcome) ==
    /\ served < MaxRequests
    /\ Send(ListHandler("/geojson", outcome, ErrorDetail(outcome.message)))

get_occupation_spatial_data(category, outcome) ==
    /\ served < MaxRequests
    /\ Send(KeyHandler("/occupation_data", category, outcome,
                       <<"No data found for occupation category: ">>))

(* main.py 178-203: the geoid is validated before the service is called *)
get_isochrones(geoid, outcome) ==
    /\ served < MaxRequests
    /\ Send(IF ~IsDigit(geoid)
            THEN Response("/isochrones", geoid, outcome, FALSE, 400,
                          <<"Invalid geoid format. Must be numeric.">>)
            ELSE KeyHandler("/isochrones", geoid, outcome,
                            <<"No isochrone data found for geoid: ">>))

(* main.py 234-239 *)
get_school_of_study_ids(outcome) ==
    /\ served < MaxRequests
    /\ Send(ListHandler("/school_of_study_ids", outcome, ErrorString(outcome.message)))

get_school_of_study_spatial_data(category, outcome) ==
    /\ served < MaxRequests
    /\ Send(KeyHandler("/school_of_study_data", category, outcome,
                       <<"No data found for school category: ">>))

InitHttpSpec ==
    /\ cache = EmptyDict /\ InitClock /\ ret = NoCall /\ lastSet = EmptyDict /\ calls = <<>>
    /\ InitSvc /\ InitThr /\ InitHttp /\ InitDb /\ InitExt

NextHttp ==
    \/ \E outcome \in Outcomes : get_occupation_ids(outcome)
    \/ \E outcome \in Outcomes : get_geojson(outcome)
    \/ \E category \in Categories, outcome \in Outcomes :
          get_occupation_spatial_data(category, outcome)
    \/ \E geoid \in Geoids, outcome \in Outcomes : get_isochrones(geoid, outcome)
    \/ \E outcome \in Outcomes : get_school_of_study_ids(outcome)
    \/ \E category \in Categories, outcome \in Outcomes :
          get_school_of_study_spatial_data(category, outcome)

SpecHttp == InitHttpSpec /\ [][NextHttp]_vars

(* C1: for every endpoint, the body of a 500 response does not contain the
   message of the exception that caused it, and two requests to the endpoint
   that fail with different exception messages get the same 500 body. *)
C1_NoLeakIn500 ==
    \A i \in 1..Len(responses) :
        responses[i].status = 500 =>
            /\ ~Contains(responses[i].body, responses[i].outcome.message)
            /\ \A j \in 1..Len(responses) :
                  (/\ responses[j].status = 500
                   /\ responses[j].endpoint = responses[i].endpoint) =>
                      responses[j].body = responses[i].body

(* C11: a request to /isochrones/{geoid} whose geoid has a character that is
   not a digit is answered 400 with the invalid-geoid-format message, and the
   isochrone service is not called for it. *)
C11_InvalidGeoidIs400 ==
    \A i \in 1..Len(responses) :
        (/\ responses[i].endpoint = "/isochrones"
         /\ \E k \in 1..Len(responses[i].param) :
                responses[i].param[k] \notin DigitChars) =>
            /\ responses[i].status = 400
            /\ responses[i].body = <<"Invalid geoid format. Must be numeric.">>
            /\ ~responses[i].called

(* a geoid that starts with a digit and is not numeric was refused, and a
   numeric geoid went through to the service *)
C11_Witness ==
    \E i, j \in 1..Len(responses) :
        /\ responses[i].endpoint = "/isochrones"
        /\ responses[i].param = <<"4", "-">>
        /\ responses[i].status = 400 /\ ~responses[i].called
        /\ responses[j].endpoint = "/isochrones"
        /\ responses[j].param = <<"4", "8">> /\ responses[j].called

KeyEndpoints == {"/occupation_data", "/school_of_study_data", "/isochrones"}

ListEndpoints == {"/occupation_ids", "/school_of_study_ids", "/geojson"}

(* C12: on the three keyed endpoints, when the service is called and returns no
   feature the response is a 404 whose detail contains the requested key; it is
   never a 500. *)
C12_NoFeaturesIs404 ==
    \A i \in 1..Len(responses) :
        (/\ responses[i].endpoint \in KeyEndpoints
         /\ responses[i].called
         /\ responses[i].outcome = Returns(0)) =>
            /\ responses[i].status = 404
            /\ Contains(responses[i].body, responses[i].param)

(* a 404 for a category and a 404 for a numeric geoid *)
C12_Witness ==
    \E i, j \in 1..Len(responses) :
        /\ responses[i].endpoint \in {"/occupation_data", "/school_of_study_data"}
        /\ responses[i].outcome = Returns(0) /\ responses[i].status = 404
        /\ responses[j].endpoint = "/isochrones" /\ IsDigit(responses[j].param)
        /\ responses[j].outcome = Returns(0) /\ responses[j].status = 404

(* C13: on the three list endpoints, when the service returns its rows the
   response is a 200 with a collection of exactly those rows, an empty
   collection when there are none; a list endpoint never answers 404. *)
C13_EmptyListIs200 ==
    \A i \in 1..Len(responses) :
        responses[i].endpoint \in ListEndpoints =>
            /\ responses[i].status # 404
            /\ responses[i].outcome.kind = "returns" =>
                  /\ responses[i].status = 200
                  /\ responses[i].body =
                        <<"collection of ", ToString(responses[i].outcome.n), " items">>

(* two different list endpoints answered 200 with an empty collection *)
C13_Witness ==
    \E i, j \in 1..Len(responses) :
        /\ responses[i].endpoint \in ListEndpoints
        /\ responses[j].endpoint \in ListEndpoints
        /\ responses[i].endpoint # responses[j].endpoint
        /\ responses[i].outcome = Returns(0) /\ responses[i].status = 200
        /\ responses[j].outcome = Returns(0) /\ responses[j].status = 200
        /\ responses[i].body = <<"collection of ", "0", " items">>

----------------------------------------------------------------------------
(* SpecDb: database.py.  get_db_session is a generator function: calling it
   runs nothing, the first next() runs it up to the yield, and the consumer
   ends it by next() (normal end), by throw() (an exception at the yield) or by
   close() (the generator is dropped while suspended). *)

Engine == [tag |-> "Engine", disposed |-> FALSE]

SessionMaker == [tag |-> "sessionmaker"]

NewSession == [closes |-> 0]

(* database.py 66: session_maker is None until init_database has run *)
InitializedAlways(maker) == TRUE

Initialized(maker) == maker # PyNone

(* database.py 67 *)
NotInitialized == <<"Database not initialized. Call init_database() first.">>

(* database.py 71-72: finally: session.close() *)
FinallyCloseAll(ss, session) == [k \in DOMAIN ss |-> [ss[k] EXCEPT !.closes = @ + 1]]

Finally(ss, session) == [ss EXCEPT ![session].closes = @ + 1]

(* the generator resumed by next(): falls out of the try block *)
ResumeByNext(ss, session) == Finally(ss, session)

(* the generator resumed by throw(): the exception leaves the try block *)
ResumeByThrowNoFinally(ss, session) == ss

ResumeByThrow(ss, session) == Finally(ss, session)

InitDbSpec ==
    /\ cache = EmptyDict /\ InitClock /\ ret = NoCall /\ lastSet = EmptyDict /\ calls = <<>>
    /\ InitSvc /\ InitThr /\ InitHttp /\ InitDb /\ InitExt

DbRest == UNCHANGED <<cacheVars, svcVars, thrVars, httpVars, extVars>>

(* database.py 44-61 *)
init_database ==
    /\ engine' = Engine
    /\ session_maker' = SessionMaker
    /\ UNCHANGED <<gens, sessions>> /\ DbRest

(* database.py 75-78: if engine: engine.dispose().  The globals engine and
   session_maker are not assigned. *)
CloseDatabaseAndReset(e, maker) == [engine |-> PyNone, session_maker |-> PyNone]

CloseDatabase(e, maker) ==
    [engine |-> IF e # PyNone THEN [e EXCEPT !.disposed = TRUE] ELSE e,
     session_maker |-> maker]

close_database ==
    /\ engine' = CloseDatabase(engine, session_maker).engine
    /\ session_maker' = CloseDatabase(engine, session_maker).session_maker
    /\ UNCHANGED <<gens, sessions>> /\ DbRest

(* get_db_session(): a new generator object, nothing of the body has run *)
get_db_session ==
    /\ Len(gens) < MaxGens
    /\ gens' = Append(gens, [pc |-> "created", session |-> 0, error |-> <<>>,
                             disposed |-> FALSE])
    /\ UNCHANGED <<engine, session_maker, sessions>> /\ DbRest

(* history: close_database has disposed the current engine *)
Disposed(e) == e # PyNone /\ e.disposed

(* first next(), database.py 66-71: RuntimeError, or a session is yielded *)
GenStart(g) ==
    /\ gens[g].pc = "created"
    /\ IF ~Initialized(session_maker)
       THEN /\ gens' = [gens EXCEPT ![g].pc = "RuntimeError",
                                     ![g].error = NotInitialized,
                                     ![g].disposed = Disposed(engine)]
            /\ sessions' = sessions
       ELSE /\ sessions' = Append(sessions, NewSession)
            /\ gens' = [gens EXCEPT ![g].pc = "yielded",
                                     ![g].session = Len(sessions) + 1,
                                     ![g].disposed = Disposed(engine)]
    /\ UNCHANGED <<engine, session_maker>> /\ DbRest

(* the consumer ends normally: next() runs the finally block, StopIteration *)
GenNext(g) ==
    /\ gens[g].pc = "yielded"
    /\ sessions' = ResumeByNext(sessions, gens[g].session)
    /\ gens' = [gens EXCEPT ![g].pc = "finished"]
    /\ UNCHANGED <<engine, session_maker>> /\ DbRest

(* the consumer fails: throw() raises its exception at the yield *)
GenThrow(g) ==
    /\ gens[g].pc = "yielded"
    /\ sessions' = ResumeByThrow(sessions, gens[g].session)
    /\ gens' = [gens EXCEPT ![g].pc = "thrown"]
    /\ UNCHANGED <<engine, session_maker>> /\ DbRest

(* the generator is dropped: close() raises GeneratorExit at the yield; a
   generator that never started has nothing to run *)
GenClose(g) ==
    /\ gens[g].pc \in {"created", "yielded"}
    /\ sessions' = IF gens[g].pc = "yielded"
                   THEN Finally(sessions, gens[g].session) ELSE sessions
    /\ gens' = [gens EXCEPT ![g].pc = "closed"]
    /\ UNCHANGED <<engine, session_maker>> /\ DbRest

NextDb ==
    \/ init_database
    \/ close_database
    \/ get_db_session
    \/ \E g \in 1..Len(gens) : GenStart(g)
    \/ \E g \in 1..Len(gens) : GenNext(g)
    \/ \E g \in 1..Len(gens) : GenThrow(g)
    \/ \E g \in 1..Len(gens) : GenClose(g)

SpecDb == InitDbSpec /\ [][NextDb]_vars

(* C2: the session a get_db_session generator handed out is not closed while
   its consumer still runs, and is closed exactly once when the consumer has
   finished, normally or by an exception thrown into the generator. *)
C2_SessionClosedExactlyOnce ==
    \A g \in 1..Len(gens) :
        /\ gens[g].pc = "yielded" => sessions[gens[g].session].closes = 0
        /\ gens[g].pc \in {"finished", "thrown"} =>
              sessions[gens[g].session].closes = 1
        /\ (gens[g].pc = "closed" /\ gens[g].session # 0) =>
              sessions[gens[g].session].closes = 1

(* one consumer ended by an exception and one normally, a third still runs *)
C2_Witness ==
    \E g, h, k \in 1..Len(gens) :
        /\ gens[g].pc = "thrown" /\ sessions[gens[g].session].closes = 1
        /\ gens[h].pc = "finished" /\ sessions[gens[h].session].closes = 1
        /\ gens[k].pc = "yielded"

(* C17: while init_database has not run, no get_db_session generator gets
   past its first step: each one that was started has failed with the
   "Database not initialized" error, and no session exists. *)
C17_NotInitialized ==
    session_maker = PyNone =>
        /\ sessions = <<>>
        /\ \A g \in 1..Len(gens) :
              /\ gens[g].pc \in {"created", "RuntimeError", "closed"}
              /\ gens[g].session = 0
              /\ gens[g].pc = "RuntimeError" =>
                    gens[g].error =
                        <<"Database not initialized. Call init_database() first.">>

(* two acquisitions were attempted before init_database and both failed *)
C17_Witness ==
    /\ session_maker = PyNone
    /\ \E g, h \in 1..Len(gens) :
          /\ g # h
          /\ gens[g].pc = "RuntimeError" /\ gens[h].pc = "RuntimeError"

Ended(g) == gens[g].pc \in {"finished", "thrown", "closed"} /\ gens[g].session # 0

(* C18: two get_db_session generators that yielded hold two different
   sessions, and when one of them has ended while the other is still at its
   yield, the ended one's session is closed and the other's is still open. *)
C18_IndependentSessions ==
    \A g, h \in 1..Len(gens) :
        (g # h /\ gens[g].session # 0 /\ gens[h].session # 0) =>
            /\ gens[g].session # gens[h].session
            /\ (Ended(g) /\ gens[h].pc = "yielded") =>
                  /\ sessions[gens[g].session].closes = 1
                  /\ sessions[gens[h].session].closes = 0

(* of three acquisitions the first and the last have ended and the middle one
   is still open: an earlier and a later one ended before it *)
C18_Witness ==
    /\ Len(gens) = 3
    /\ Ended(1) /\ Ended(3)
    /\ gens[2].pc = "yielded"
    /\ sessions[gens[2].session].closes = 0
    /\ sessions[gens[1].session].closes = 1
    /\ sessions[gens[3].session].closes = 1

(* C30: close_database only disposes the current engine: it changes nothing
   when no engine exists, it leaves engine and session_maker set and the
   generators and sessions as they were, and a get_db_session started after
   init_database and close_database still creates and yields a session. *)
C30_CloseOnlyDisposes ==
    /\ [](\A g \in 1..Len(gens) :
              gens[g].disposed =>
                  (/\ gens[g].pc \in {"yielded", "finished", "thrown", "closed"}
                   /\ gens[g].session \in 1..Len(sessions)))
    /\ [][Initialized(session_maker) => Initialized(session_maker')]_vars
    /\ [][(engine' # engine /\ engine' # Engine) =>
              (/\ engine # PyNone
               /\ engine' = [engine EXCEPT !.disposed = TRUE]
               /\ UNCHANGED <<session_maker, gens, sessions>>)]_vars

(* after init_database and close_database an acquisition yielded a session *)
C30_Witness ==
    /\ Disposed(engine)
    /\ session_maker = SessionMaker
    /\ \E g \in 1..Len(gens) : gens[g].disposed /\ gens[g].pc = "yielded"

----------------------------------------------------------------------------
(* SpecWrap: operations wrapped with cache_with_ttl, all sharing the
   process-wide cache. *)

(* wrapped operations: a function is identified by its module and its name,
   func.__name__ is the name alone; "ping" returns None and "search" an
   empty list *)
Operations ==
    { [module |-> "services", name |-> "load"],
      [module |-> "reports", name |-> "load"],
      [module |-> "services", name |-> "ping"],
      [module |-> "services", name |-> "search"] }

(* argument values: an int, a str and two objects without a __repr__ of
   their own, the second allocated at the address the first one had *)
PyInt(digits) == [type |-> "int", v |-> digits, addr |-> ""]

PyText(chars) == [type |-> "str", v |-> chars, addr |-> ""]

PyObject(ident, addr) == [type |-> "Session", v |-> ident, addr |-> addr]

ArgValues ==
    { PyInt("1"), PyText("1"), PyObject("first", "0x7f3a10"),
      PyObject("second", "0x7f3a10") }

(* repr(x) *)
PyRepr(x) ==
    CASE x.type = "int" -> <<x.v>>
      [] x.type = "str" -> <<"'", x.v, "'">>
      [] OTHER -> <<"<", x.type, " object at ", x.addr, ">">>

(* str(args) of a one-element tuple, str(kwargs) of an empty dict *)
StrArgs(x) == <<"(">> \o PyRepr(x) \o <<",)">>

StrKwargs == <<"{}">>

(* line 47: cache_key = f"{func.__name__}:{str(args)}:{str(kwargs)}" *)
CacheKey(func, x) == <<func.name, ":">> \o StrArgs(x) \o <<":">> \o StrKwargs

(* line 57, the call of func: what the operation computes from its argument *)
Apply(func, x) ==
    IF func.name = "ping" THEN PyNone
    ELSE IF func.name = "search" THEN PyList(<<>>)
    ELSE PyStr(<<func.module, ".", func.name, " of ", x.type, " ", x.v>>)

(* lines 45-60: wrapper called at clock t: the value returned,
   whether func ran, and the dict left behind *)
WrapperHitIfPresent(d, func, x, ttl_seconds, t) ==
    LET cache_key == CacheKey(func, x)
        got == SimpleCacheGet(d, cache_key, t)
    IN  IF DictHas(got.cache, cache_key)
        THEN [value |-> got.value, executed |-> FALSE, cache |-> got.cache]
        ELSE [value |-> Apply(func, x), executed |-> TRUE,
              cache |-> SimpleCacheSet(got.cache, cache_key, Apply(func, x),
                                       ttl_seconds, t)]

Wrapper(d, func, x, ttl_seconds, t) ==
    LET cache_key == CacheKey(func, x)
        got == SimpleCacheGet(d, cache_key, t)
    IN  IF got.value # PyNone
        THEN [value |-> got.value, executed |-> FALSE, cache |-> got.cache]
        ELSE [value |-> Apply(func, x), executed |-> TRUE,
              cache |-> SimpleCacheSet(got.cache, cache_key, Apply(func, x),
                                       ttl_seconds, t)]

InitWrap ==
    /\ cache = EmptyDict /\ InitClock /\ ret = NoCall /\ lastSet = EmptyDict
    /\ calls = <<>>
    /\ InitSvc /\ InitThr /\ InitHttp /\ InitDb /\ InitExt

WrappedCall(func, x) ==
    LET r == Wrapper(cache, func, x, WrapTtl, now) IN
    /\ Len(calls) < MaxWrapCalls
    /\ cache' = r.cache
    /\ calls' = Append(calls, [func |-> func, arg |-> x, at |-> now,
                               value |-> r.value, executed |-> r.executed])
    /\ UNCHANGED <<now, ticks, ret, lastSet, svcVars, thrVars, httpVars, dbVars, extVars>>

TickWrap ==
    /\ ticks < MaxTicks
    /\ now' = now + 1
    /\ ticks' = ticks + 1
    /\ UNCHANGED <<cache, ret, lastSet, calls, svcVars, thrVars, httpVars, dbVars, extVars>>

(* the calls made: the two loads with every argument, the operations without
   a result of their own with one *)
WrappedCalls ==
    {c \in Operations \X ArgValues : c[1].name = "load" \/ c[2] = PyInt("1")}

NextWrap ==
    \/ \E c \in WrappedCalls : WrappedCall(c[1], c[2])
    \/ TickWrap

SpecWrap == InitWrap /\ [][NextWrap]_vars

SameCall(a, b) == a.func = b.func /\ a.arg = b.arg

(* C7: two calls share a cache slot exactly when they are calls of the same
   wrapped operation with the same arguments: a call repeated within the TTL
   of an executed call of the same operation with the same arguments returns
   that call's result without executing the operation, and a result served
   from the cache always comes from a call of the same operation with the same
   arguments. *)
C7_SlotPerOperationAndArguments ==
    \A j \in 1..Len(calls) :
        /\ \A i \in 1..(j - 1) :
              (/\ SameCall(calls[i], calls[j])
               /\ calls[i].executed
               /\ calls[j].at < calls[i].at + WrapTtl) =>
                  (~calls[j].executed /\ calls[j].value = calls[i].value)
        /\ ~calls[j].executed =>
              \E i \in 1..(j - 1) :
                  SameCall(calls[i], calls[j]) /\ calls[i].value = calls[j].value

(* C29: a wrapped operation that returns None is executed on every call and
   its None is stored but never served from the cache, while a non-None result
   (an empty list included) is served from the cache to every call of the same
   operation with the same arguments made within the TTL. *)
C29_NoneIsNeverServed ==
    \A j \in 1..Len(calls) :
        /\ Apply(calls[j].func, calls[j].arg) = PyNone =>
               (calls[j].executed /\ calls[j].value = PyNone)
        /\ ~calls[j].executed => calls[j].value # PyNone
        /\ \A i \in 1..(j - 1) :
               (/\ SameCall(calls[i], calls[j])
                /\ calls[i].executed
                /\ calls[i].value # PyNone
                /\ calls[j].at < calls[i].at + WrapTtl) =>
                   (~calls[j].executed /\ calls[j].value = calls[i].value)

(* the operation that returns None ran twice at the same instant although
   the cache held its unexpired None, and the empty list was served from the
   cache *)
C29_Witness ==
    /\ Len(calls) = 3
    /\ calls[1].func.name = "ping" /\ calls[1].executed
    /\ calls[2].func.name = "ping" /\ calls[2].arg = calls[1].arg /\ calls[2].executed
    /\ calls[2].at = calls[1].at
    /\ DictHas(cache, CacheKey(calls[1].func, calls[1].arg))
    /\ cache[CacheKey(calls[1].func, calls[1].arg)].value = PyNone
    /\ \E k \in DOMAIN cache : cache[k].value = PyList(<<>>)

----------------------------------------------------------------------------
(* services.py: OccupationService.get_occupations_with_names, and
   repositories/occupation.py: OccupationRepository.get_occupation_categories,
   both reading the table occupation_codes. *)

(* services.py 72: the entry lives 24 hours *)
CacheTtlSeconds == 86400

EnvValues == {Unset, "0", "1"}

(* services.py 41: is_testing = os.getenv('TESTING') == '1' *)
IsTesting(env) == env = "1"

(* services.py 47 and 71: if not is_testing *)
UseCacheAlways(env) == TRUE

UseCache(env) == ~IsTesting(env)

(* services.py 44 *)
cache_key == <<"get_occupations_with_names">>

(* the characters str.strip() removes, and the one SQL TRIM removes *)
WhitespaceChars == {" ", "\t", "\n"}

SqlTrimChars == {" "}

RECURSIVE LStrip(_, _)
LStrip(chars, drop) ==
    IF chars # <<>> /\ chars[1] \in drop THEN LStrip(Tail(chars), drop) ELSE chars

RECURSIVE RStrip(_, _)
RStrip(chars, drop) ==
    IF chars # <<>> /\ chars[Len(chars)] \in drop
    THEN RStrip(SubSeq(chars, 1, Len(chars) - 1), drop)
    ELSE chars

(* name.strip() *)
Strip(chars) == RStrip(LStrip(chars, WhitespaceChars), WhitespaceChars)

(* func.trim(occupation_name): TRIM(x) removes spaces *)
SqlTrim(chars) == RStrip(LStrip(chars, SqlTrimChars), SqlTrimChars)

(* ORDER BY occupation_code: the characters in their collation order *)
CharOrder == <<"\t", "\n", " ", "-", "1", "2", "N">>

CharRank(c) == CHOOSE i \in 1..Len(CharOrder) : CharOrder[i] = c

RECURSIVE LexLess(_, _)
LexLess(a, b) ==
    IF a = <<>> THEN b # <<>>
    ELSE IF b = <<>> THEN FALSE
    ELSE IF a[1] = b[1] THEN LexLess(Tail(a), Tail(b))
    ELSE CharRank(a[1]) < CharRank(b[1])

(* an ordering by length first, as a numeric reading of the codes would give *)
RECURSIVE OrderByLength(_)
OrderByLength(codes) ==
    IF codes = {} THEN <<>>
    ELSE LET first == CHOOSE c \in codes :
                          \A d \in codes \ {c} :
                              Len(c) < Len(d) \/ (Len(c) = Len(d) /\ LexLess(c, d))
         IN  <<first>> \o OrderByLength(codes \ {first})

RECURSIVE OrderByCode(_)
OrderByCode(codes) ==
    IF codes = {} THEN <<>>
    ELSE LET first == CHOOSE c \in codes : \A d \in codes \ {c} : LexLess(c, d)
         IN  <<first>> \o OrderByCode(codes \ {first})

(* services.py 53-56: the rows (occupation_code, occupation_name) in code order *)
SelectOrdered(tbl) ==
    LET codes == OrderByCode(DOMAIN tbl)
    IN  [i \in 1..Len(codes) |-> [code |-> codes[i], name |-> tbl[codes[i]]]]

(* services.py 61-68: the name, or the code when the name is None, empty or
   blank after strip() *)
ServiceItemStripped(row) ==
    [code |-> row.code,
     name |-> IF row.name = PyNone \/ row.name.s = <<>> \/ Strip(row.name.s) = <<>>
              THEN row.code ELSE Strip(row.name.s)]

ServiceItem(row) ==
    [code |-> row.code,
     name |-> IF row.name = PyNone \/ row.name.s = <<>> \/ Strip(row.name.s) = <<>>
              THEN row.code ELSE row.name.s]

(* repositories/occupation.py 26-36: CASE WHEN name IS NULL OR name = '' OR
   trim(name) = '' THEN code ELSE name END *)
RepositoryItem(row) ==
    [code |-> row.code,
     name |-> IF row.name = PyNone \/ row.name.s = <<>> \/ SqlTrim(row.name.s) = <<>>
              THEN row.code ELSE row.name.s]

(* services.py 58-68 *)
Occupations(tbl) ==
    LET rows == SelectOrdered(tbl)
    IN  PyList([i \in 1..Len(rows) |-> ServiceItem(rows[i])])

(* repositories/occupation.py 21-42 *)
OccupationCategories(tbl) ==
    LET rows == SelectOrdered(tbl)
    IN  PyList([i \in 1..Len(rows) |-> RepositoryItem(rows[i])])

(* services.py 70-72: _cache.set(cache_key, occupations, 86400) *)
CacheResultUnlessEmpty(d, occupations, t) ==
    IF occupations.items = <<>> THEN d
    ELSE SimpleCacheSet(d, cache_key, occupations, CacheTtlSeconds, t)

CacheResult(d, occupations, t) ==
    SimpleCacheSet(d, cache_key, occupations, CacheTtlSeconds, t)

(* services.py 31-74, called at clock t with a query that takes q seconds and
   succeeds or fails: the value returned (or the exception), whether the
   database was queried, and the dict left behind *)
OccupationsWithNamesCacheFailure(d, env, tbl, dbOk, t, q) ==
    LET got == IF UseCache(env) THEN SimpleCacheGet(d, cache_key, t)
               ELSE [value |-> PyNone, cache |-> d]
    IN  IF UseCache(env) /\ got.value # PyNone
        THEN [value |-> got.value, queried |-> FALSE, raised |-> FALSE,
              stored |-> FALSE, cache |-> got.cache]
        ELSE IF ~dbOk
        THEN [value |-> PyNone, queried |-> TRUE, raised |-> TRUE,
              stored |-> UseCache(env),
              cache |-> IF UseCache(env)
                        THEN CacheResult(got.cache, PyList(<<>>), t + q)
                        ELSE got.cache]
        ELSE [value |-> Occupations(tbl), queried |-> TRUE, raised |-> FALSE,
              stored |-> UseCache(env),
              cache |-> IF UseCache(env)
                        THEN CacheResult(got.cache, Occupations(tbl), t + q)
                        ELSE got.cache]

OccupationsWithNames(d, env, tbl, dbOk, t, q) ==
    LET got == IF UseCache(env) THEN SimpleCacheGet(d, cache_key, t)
               ELSE [value |-> PyNone, cache |-> d]
    IN  IF UseCache(env) /\ got.value # PyNone
        THEN [value |-> got.value, queried |-> FALSE, raised |-> FALSE,
              stored |-> FALSE, cache |-> got.cache]
        ELSE IF ~dbOk
        THEN [value |-> PyNone, queried |-> TRUE, raised |-> TRUE,
              stored |-> FALSE, cache |-> got.cache]
        ELSE [value |-> Occupations(tbl), queried |-> TRUE, raised |-> FALSE,
              stored |-> UseCache(env),
              cache |-> IF UseCache(env)
                        THEN CacheResult(got.cache, Occupations(tbl), t + q)
                        ELSE got.cache]

(* the contents occupation_codes can have *)
Codes == {<<"1", "1">>, <<"2">>}

Names ==
    { PyNone, PyStr(<<>>), PyStr(<<" ">>), PyStr(<<"\t">>), PyStr(<<"N">>),
      PyStr(<<" ", "N">>) }

TablesOf(codes, names) == UNION {[cs -> names] : cs \in SUBSET codes}

SvcRest == UNCHANGED <<calls, thrVars, httpVars, dbVars, extVars>>

(* one call of OccupationService.get_occupations_with_names(session) *)
get_occupations_with_names(dbOk, q) ==
    LET r == OccupationsWithNames(cache, TESTING, table, dbOk, now, q)
        elapsed == IF r.queried THEN q ELSE 0
    IN  /\ elapsed = 0 \/ ticks < MaxTicks
        /\ cache' = r.cache
        /\ now' = now + elapsed
        /\ ticks' = IF elapsed = 0 THEN ticks ELSE ticks + 1
        /\ ret' = [op |-> "lookup", testing |-> (TESTING = "1"), queried |-> r.queried,
                   raised |-> r.raised, value |-> r.value, at |-> now, pre |-> cache,
                   prev |-> lastSet]
        /\ lastSet' = IF r.queried /\ ~r.raised /\ TESTING # "1"
                      THEN DictPut(lastSet, cache_key,
                                   [value |-> r.value, at |-> now + elapsed,
                                    expiry |-> now + elapsed + CacheTtlSeconds,
                                    cleared |-> FALSE])
                      ELSE lastSet
        /\ UNCHANGED svcVars /\ SvcRest

(* one call of OccupationRepository(session).get_occupation_categories() *)
get_occupation_categories ==
    /\ ret' = [op |-> "categories", testing |-> (TESTING = "1"), queried |-> TRUE,
               raised |-> FALSE, value |-> OccupationCategories(table), at |-> now,
               pre |-> cache, prev |-> lastSet]
    /\ UNCHANGED <<cache, now, ticks, lastSet, svcVars>> /\ SvcRest

(* the external batch load rewrites occupation_codes *)
LoadOccupationCodes(tbl) ==
    /\ dbChanges < MaxDbChanges
    /\ tbl # table
    /\ table' = tbl
    /\ dbChanges' = dbChanges + 1
    /\ ret' = [NoCall EXCEPT !.op = "load"]
    /\ UNCHANGED <<cache, now, ticks, lastSet, TESTING>> /\ SvcRest

(* os.environ["TESTING"] is set or removed, as tests/conftest.py does *)
SetTesting(env) ==
    /\ env # TESTING
    /\ TESTING' = env
    /\ ret' = [NoCall EXCEPT !.op = "setenv"]
    /\ UNCHANGED <<cache, now, ticks, lastSet, table, dbChanges>> /\ SvcRest

(* time passes between two calls *)
TickSvc(seconds) ==
    /\ ticks < MaxTicks
    /\ now' = now + seconds
    /\ ticks' = ticks + 1
    /\ ret' = [NoCall EXCEPT !.op = "tick"]
    /\ UNCHANGED <<cache, lastSet, svcVars>> /\ SvcRest

ClockSteps == {1, CacheTtlSeconds - 1}

QueryTimes == {0, 1}

----------------------------------------------------------------------------
(* SpecLookup: the cached lookup over a table that changes and an
   environment that is switched between production and testing mode *)

LookupTables == TablesOf(Codes, {PyNone, PyStr(<<"N">>)})

InitLookup ==
    /\ cache = EmptyDict /\ InitClock /\ ret = NoCall /\ lastSet = EmptyDict
    /\ calls = <<>>
    /\ TESTING \in EnvValues
    /\ table \in LookupTables
    /\ dbChanges = 0
    /\ InitThr /\ InitHttp /\ InitDb /\ InitExt

NextLookup ==
    \/ \E dbOk \in BOOLEAN, q \in QueryTimes : get_occupations_with_names(dbOk, q)
    \/ \E tbl \in LookupTables : LoadOccupationCodes(tbl)
    \/ \E env \in EnvValues : SetTesting(env)
    \/ \E seconds \in ClockSteps : TickSvc(seconds)

SpecLookup == InitLookup /\ [][NextLookup]_vars

(* C8: with TESTING=1 a call neither reads nor writes the cache: it queries
   the database, leaves the dict as it was and, when the query succeeds,
   returns the occupations of the table as it is now, also when the cache
   holds an unexpired entry for the lookup. *)
C8_TestingBypassesCache ==
    (ret.op = "lookup" /\ TESTING = "1") =>
        /\ ret.queried
        /\ cache = ret.pre
        /\ ~ret.raised => ret.value = Occupations(table)

(* a testing-mode call returned the changed table while the cache held an
   unexpired entry with the old occupations *)
C8_Witness ==
    /\ ret.op = "lookup" /\ TESTING = "1" /\ ~ret.raised
    /\ dbChanges > 0
    /\ cache_key \in DOMAIN cache
    /\ ret.at < cache[cache_key].expiry
    /\ cache[cache_key].value # ret.value

(* C9: in production mode, once a call has queried the database and returned
   a result at some instant, every call made less than 86400 seconds after that
   instant returns the same result without querying the database, and a call
   made 86400 seconds or more after it queries the database again. *)
C9_CachedFor24Hours ==
    (/\ ret.op = "lookup" /\ TESTING # "1"
     /\ cache_key \in DOMAIN ret.prev) =>
        LET first == ret.prev[cache_key]
        IN  /\ ret.at < first.at + 86400 =>
                  (~ret.queried /\ ~ret.raised /\ ret.value = first.value)
            /\ ret.at >= first.at + 86400 => ret.queried

(* 86399 seconds after a call returned the empty list, a call returned it
   again without a query although the table has rows by now *)
C9_Witness ==
    /\ ret.op = "lookup" /\ TESTING # "1"
    /\ cache_key \in DOMAIN ret.prev
    /\ ret.at = ret.prev[cache_key].at + 86399
    /\ ~ret.queried
    /\ ret.value = PyList(<<>>)
    /\ table # EmptyDict

(* the code points of the characters of the codes *)
CodePoints ==
    ("\t" :> 9) @@ ("\n" :> 10) @@ (" " :> 32) @@ ("-" :> 45) @@ ("1" :> 49) @@ ("2" :> 50)
        @@ ("N" :> 78)

RECURSIVE Before(_, _)
Before(a, b) ==
    IF a = <<>> THEN b # <<>>
    ELSE IF b = <<>> THEN FALSE
    ELSE IF a[1] = b[1] THEN Before(Tail(a), Tail(b))
    ELSE CodePoints[a[1]] < CodePoints[b[1]]

(* C25: the occupations get_occupations_with_names returns (and GET
   /occupation_ids passes on in the same order) are the occupations of the
   table in ascending lexicographic order of their code, also when the result
   is served from the cache. *)
C25_OrderedByCode ==
    (ret.op = "lookup" /\ ~ret.raised) =>
        \A i, j \in 1..Len(ret.value.items) :
            i < j => Before(ret.value.items[i].code, ret.value.items[j].code)

(* a result served from the cache lists 11 before 2 *)
C25_Witness ==
    /\ ret.op = "lookup" /\ ~ret.raised /\ ~ret.queried
    /\ Len(ret.value.items) = 2
    /\ ret.value.items[1].code = <<"1", "1">>
    /\ ret.value.items[2].code = <<"2">>

(* what a call made now would do, whether its query succeeds or not *)
NextCallQueries ==
    \A dbOk \in BOOLEAN : OccupationsWithNames(cache, TESTING, table, dbOk, now, 0).queried

FailedInProduction == ret.op = "lookup" /\ ret.raised /\ TESTING # "1"

(* C26: in production mode, when the query of get_occupations_with_names
   raises, the dict of the shared cache is exactly as it was before the call,
   and the next call queries the database again. *)
C26_CacheUntouchedOnFailure ==
    FailedInProduction => (cache = ret.pre /\ NextCallQueries)

(* C26 as the code has it: nothing is stored, and the read that precedes the
   query has removed the expired entry of the lookup when there was one. *)
C26_NothingStoredOnFailure ==
    FailedInProduction =>
        /\ cache = IF DictHas(ret.pre, cache_key) THEN DictDel(ret.pre, cache_key) ELSE ret.pre
        /\ DictHas(ret.pre, cache_key) => ret.pre[cache_key].expiry <= ret.at
        /\ ~DictHas(cache, cache_key)
        /\ NextCallQueries

(* the query failed on a call that found an expired entry *)
C26_Witness ==
    /\ FailedInProduction
    /\ DictHas(ret.pre, cache_key)
    /\ cache = EmptyDict

----------------------------------------------------------------------------
(* SpecNames: the service lookup and the repository query over every table
   of null, empty, blank and ordinary names *)

NameTables == TablesOf(Codes, Names)

InitNames ==
    /\ cache = EmptyDict /\ InitClock /\ ret = NoCall /\ lastSet = EmptyDict
    /\ calls = <<>>
    /\ TESTING \in EnvValues
    /\ table \in NameTables
    /\ dbChanges = 0
    /\ InitThr /\ InitHttp /\ InitDb /\ InitExt

NextNames ==
    \/ \E dbOk \in BOOLEAN, q \in QueryTimes : get_occupations_with_names(dbOk, q)
    \/ get_occupation_categories
    \/ \E seconds \in ClockSteps : TickSvc(seconds)

SpecNames == InitNames /\ [][NextNames]_vars

(* the stored name is null, empty or made of whitespace only *)
BlankName(stored) ==
    \/ stored = PyNone
    \/ \A k \in 1..Len(stored.s) : stored.s[k] \in {" ", "\t", "\n"}

FallbackIn(result) ==
    \A i \in 1..Len(result.items) :
        LET item == result.items[i] IN
        /\ item.code \in DOMAIN table
        /\ BlankName(table[item.code]) => item.name = item.code
        /\ ~BlankName(table[item.code]) => item.name = table[item.code].s

(* C10: in every result of get_occupations_with_names and of the repository's
   get_occupation_categories, an occupation whose stored name is null, empty
   or whitespace-only has its code as name, and every other occupation has
   its stored name unchanged. *)
C10_NameFallback ==
    (ret.op \in {"lookup", "categories"} /\ ~ret.raised) => FallbackIn(ret.value)

(* the part of C10 about get_occupations_with_names alone *)
ServiceNameFallback ==
    (ret.op = "lookup" /\ ~ret.raised) => FallbackIn(ret.value)

----------------------------------------------------------------------------
(* SpecIso: the isochrone lookup (services.py 207-267 and
   repositories/travel_time.py 112-163).  The table is a sequence of rows in
   physical storage order; the query filters it by geoid and orders it by the
   CASE expression of its ORDER BY clause. *)

(* services.py 211-220 and constants.py 6-15 *)
TIME_CATEGORY_COLORS ==
    ("< 5" :> "#1a9850") @@ ("5~10" :> "#66bd63") @@ ("10~15" :> "#a6d96a") @@
    ("15~20" :> "#fdae61") @@ ("20~25" :> "#fee08b") @@ ("25~30" :> "#f46d43") @@
    ("30~45" :> "#d73027") @@ ("> 45" :> "#a50026")

(* constants.py 18, and the literal of services.py 253 *)
DEFAULT_COLOR == "#808080"

(* dict[key]: KeyError when the key is absent *)
DictGetItem(d, key, default) == IF key \in DOMAIN d THEN d[key] ELSE "KeyError"

(* dict.get(key, default) *)
DictGet(d, key, default) == IF key \in DOMAIN d THEN d[key] ELSE default

(* the CASE of the ORDER BY clause: no branch matches an unlisted label, and the
   expression is then NULL *)
SqlNull == 9

OrderByCase(traveltime_category) ==
    CASE traveltime_category = "< 5" -> 1
      [] traveltime_category = "5~10" -> 2
      [] traveltime_category = "10~15" -> 3
      [] traveltime_category = "15~20" -> 4
      [] traveltime_category = "20~25" -> 5
      [] traveltime_category = "25~30" -> 6
      [] traveltime_category = "30~45" -> 7
      [] traveltime_category = "> 45" -> 8
      [] OTHER -> SqlNull

(* ascending ORDER BY of PostgreSQL: NULL sorts after every value, and rows
   with equal sort values come in any order *)
InOrderPhysical(rows, perm) == \A i, j \in DOMAIN perm : i < j => perm[i] < perm[j]

InOrder(rows, perm) ==
    \A i, j \in DOMAIN perm :
        i < j => OrderByCase(rows[perm[i]].traveltime_category)
                     <= OrderByCase(rows[perm[j]].traveltime_category)

(* WHERE geoid = :geoid *)
WhereGeoid(tbl, geoid) == SelectSeq(tbl, LAMBDA row : row.geoid = geoid)

(* the orders in which the query may return the rows of a geoid *)
QueryOrders(rows) == {perm \in Permutations(DOMAIN rows) : InOrder(rows, perm)}

(* the loop over result.fetchall(): one feature per row *)
IsochroneFeature(row) ==
    [geoid |-> row.geoid, time_category |-> row.traveltime_category,
     color |-> DictGet(TIME_CATEGORY_COLORS, row.traveltime_category, DEFAULT_COLOR)]

IsochronesByGeoid(tbl, geoid, perm) ==
    [i \in DOMAIN perm |-> IsochroneFeature(WhereGeoid(tbl, geoid)[perm[i]])]

IsoGeoids == {"48113000100", "48113000200"}

StoredCategories == (DOMAIN TIME_CATEGORY_COLORS) \cup {"60+", "<5"}

IsoRows ==
    {[geoid |-> "48113000100", traveltime_category |-> c] : c \in StoredCategories}
        \cup {[geoid |-> "48113000200", traveltime_category |-> "> 45"]}

InitIso ==
    /\ cache = EmptyDict /\ InitClock /\ ret = NoCall /\ lastSet = EmptyDict /\ calls = <<>>
    /\ InitSvc /\ InitThr /\ InitHttp /\ InitDb /\ InitExt

IsoRest == UNCHANGED <<cache, now, ticks, lastSet, calls, svcVars, thrVars, httpVars,
                       dbVars, environ, limiter_storage, minute, shadow, reqVars>>

(* the batch load writes a row at the end of the table *)
InsertIsochrone(row) ==
    /\ Len(isochrone_table) < MaxRows
    /\ isochrone_table' = Append(isochrone_table, row)
    /\ ret' = [NoCall EXCEPT !.op = "insert"]
    /\ IsoRest

(* IsochroneService.get_isochrones_by_geoid, services.py 222-267 *)
get_isochrones_by_geoid(geoid) ==
    /\ \E perm \in QueryOrders(WhereGeoid(isochrone_table, geoid)) :
          ret' = [NoCall EXCEPT !.op = "service", !.key = geoid,
                     !.value = PyList(IsochronesByGeoid(isochrone_table, geoid, perm))]
    /\ UNCHANGED isochrone_table
    /\ IsoRest

(* TravelTimeRepository.get_isochrones_by_geoid, travel_time.py 112-163 *)
repository_get_isochrones_by_geoid(geoid) ==
    /\ \E perm \in QueryOrders(WhereGeoid(isochrone_table, geoid)) :
          ret' = [NoCall EXCEPT !.op = "repository", !.key = geoid,
                     !.value = PyList(IsochronesByGeoid(isochrone_table, geoid, perm))]
    /\ UNCHANGED isochrone_table
    /\ IsoRest

NextIso ==
    \/ \E row \in IsoRows : InsertIsochrone(row)
    \/ \E geoid \in IsoGeoids : get_isochrones_by_geoid(geoid)
    \/ \E geoid \in IsoGeoids : repository_get_isochrones_by_geoid(geoid)

SpecIso == InitIso /\ [][NextIso]_vars

IsLookup == ret.op \in {"service", "repository"}

CanonicalOrder == <<"< 5", "5~10", "10~15", "15~20", "20~25", "25~30", "30~45", "> 45">>

CanonicalIndex(label) == CHOOSE k \in 1..Len(CanonicalOrder) : CanonicalOrder[k] = label

IsCanonical(label) == \E k \in 1..Len(CanonicalOrder) : CanonicalOrder[k] = label

(* how many rows of the table have the geoid and the label *)
Stored(geoid, label) ==
    Cardinality({i \in 1..Len(isochrone_table) :
                    /\ isochrone_table[i].geoid = geoid
                    /\ isochrone_table[i].traveltime_category = label})

Returned(label) ==
    Cardinality({i \in 1..Len(ret.value.items) : ret.value.items[i].time_category = label})

(* C14: the features of an isochrone lookup are exactly the rows stored for the
   geoid, and their canonical time-category labels come in the canonical order
   < 5, 5~10, 10~15, 15~20, 20~25, 25~30, 30~45, > 45, whatever the order of the
   rows in the table. *)
C14_CanonicalOrder ==
    IsLookup =>
        /\ \A i \in 1..Len(ret.value.items) : ret.value.items[i].geoid = ret.key
        /\ \A label \in StoredCategories : Returned(label) = Stored(ret.key, label)
        /\ \A i, j \in 1..Len(ret.value.items) :
              (/\ i < j
               /\ IsCanonical(ret.value.items[i].time_category)
               /\ IsCanonical(ret.value.items[j].time_category)) =>
                  CanonicalIndex(ret.value.items[i].time_category)
                      <= CanonicalIndex(ret.value.items[j].time_category)

(* three bands stored in the reverse of the canonical order, returned in it *)
C14_Witness ==
    /\ IsLookup
    /\ Len(isochrone_table) = 3
    /\ isochrone_table[1].traveltime_category = "> 45"
    /\ isochrone_table[2].traveltime_category = "10~15"
    /\ isochrone_table[3].traveltime_category = "5~10"
    /\ Len(ret.value.items) = 3
    /\ ret.value.items[1].time_category = "5~10"
    /\ ret.value.items[2].time_category = "10~15"
    /\ ret.value.items[3].time_category = "> 45"

(* C15: the color of a feature is the fixed color of its label when the label is
   one of the eight canonical ones and #808080 for every other label; resolving
   it never raises. *)
C15_ColorTotal ==
    IsLookup =>
        \A i \in 1..Len(ret.value.items) :
            LET label == ret.value.items[i].time_category
                color == ret.value.items[i].color
            IN  /\ color # "KeyError"
                /\ label = "< 5" => color = "#1a9850"
                /\ label = "5~10" => color = "#66bd63"
                /\ label = "10~15" => color = "#a6d96a"
                /\ label = "15~20" => color = "#fdae61"
                /\ label = "20~25" => color = "#fee08b"
                /\ label = "25~30" => color = "#f46d43"
                /\ label = "30~45" => color = "#d73027"
                /\ label = "> 45" => color = "#a50026"
                /\ ~IsCanonical(label) => color = "#808080"

(* a lookup that returned a canonical band and two unknown labels *)
C15_Witness ==
    /\ IsLookup
    /\ \E i, j, k \in 1..Len(ret.value.items) :
          /\ ret.value.items[i].time_category = "30~45"
          /\ ret.value.items[i].color = "#d73027"
          /\ ret.value.items[j].time_category = "60+"
          /\ ret.value.items[j].color = "#808080"
          /\ ret.value.items[k].time_category = "<5"
          /\ ret.value.items[k].color = "#808080"

----------------------------------------------------------------------------
(* SpecEnv: DatabaseConfig.from_env (database.py 14-34) applied to the
   environment of the process.  os.getenv gives None for a variable that is
   not set. *)

(* database.py 17 *)
required_vars == <<"USERNAME", "PASS", "URL", "DB">>

(* database.py 21: "not os.getenv(var)" holds for None and for "" *)
NotValue(value) == value = PyNone \/ value = PyStr(<<>>)

(* database.py 18-22 *)
FirstMissingVar(env) ==
    LET missing == SelectSeq(required_vars, LAMBDA var : NotValue(env[var]))
    IN  IF missing = <<>> THEN <<>> ELSE <<missing[1]>>

MissingVars(env) == SelectSeq(required_vars, LAMBDA var : NotValue(env[var]))

(* str.join *)
RECURSIVE Join(_, _)
Join(sep, items) ==
    IF items = <<>> THEN <<>>
    ELSE IF Len(items) = 1 THEN <<items[1]>>
    ELSE <<items[1], sep>> \o Join(sep, Tail(items))

(* os.getenv(var, "") *)
GetenvOrEmpty(env, var) == IF env[var] = PyNone THEN <<>> ELSE env[var].s

(* database.py 24-34 *)
FromEnv(env) ==
    IF MissingVars(env) # <<>>
    THEN [tag |-> "RuntimeError",
          message |-> <<"Missing required environment variables: ">>
                          \o Join(", ", MissingVars(env))]
    ELSE [tag |-> "DatabaseConfig",
          username |-> GetenvOrEmpty(env, "USERNAME"),
          password |-> GetenvOrEmpty(env, "PASS"),
          url |-> GetenvOrEmpty(env, "URL"),
          database |-> GetenvOrEmpty(env, "DB")]

ConfigValues == {PyNone, PyStr(<<>>), PyStr(<<" ">>), PyStr(<<"v", "1">>)}

InitEnv ==
    /\ cache = EmptyDict /\ InitClock /\ ret = NoCall /\ lastSet = EmptyDict /\ calls = <<>>
    /\ InitSvc /\ InitThr /\ InitHttp /\ InitDb /\ InitExt

EnvRest == UNCHANGED <<cache, now, ticks, lastSet, calls, svcVars, thrVars, httpVars,
                       dbVars, isochrone_table, limiter_storage, minute, shadow, reqVars>>

(* os.environ[name] = value, or del os.environ[name] when value is None *)
SetEnviron(name, value) ==
    /\ environ[name] # value
    /\ environ' = [environ EXCEPT ![name] = value]
    /\ ret' = [NoCall EXCEPT !.op = "environ"]
    /\ EnvRest

from_env ==
    /\ ret' = [NoCall EXCEPT !.op = "from_env", !.value = FromEnv(environ)]
    /\ UNCHANGED environ
    /\ EnvRest

NextEnv ==
    \/ \E name \in EnvNames, value \in ConfigValues : SetEnviron(name, value)
    \/ from_env

SpecEnv == InitEnv /\ [][NextEnv]_vars

UnsetOrEmpty(name) == environ[name] = PyNone \/ environ[name] = PyStr(<<>>)

(* the place of a name in a message, 0 when it does not occur *)
PlaceIn(message, name) ==
    IF \E k \in 1..Len(message) : message[k] = name
    THEN CHOOSE k \in 1..Len(message) : message[k] = name
    ELSE 0

(* C16: from_env raises a configuration error exactly when one of USERNAME,
   PASS, URL, DB is unset or empty; the message then names every missing
   variable, and no other, in the order USERNAME, PASS, URL, DB; otherwise the
   config holds exactly the four values of the environment. *)
C16_FromEnv ==
    ret.op = "from_env" =>
        LET order == <<"USERNAME", "PASS", "URL", "DB">>
        IN  /\ (ret.value.tag = "RuntimeError") <=> (\E name \in EnvNames : UnsetOrEmpty(name))
            /\ ret.value.tag = "RuntimeError" =>
                  /\ ret.value.message[1] = "Missing required environment variables: "
                  /\ \A name \in EnvNames :
                        UnsetOrEmpty(name) <=> PlaceIn(ret.value.message, name) > 0
                  /\ \A k \in 1..Len(ret.value.message) :
                        Cardinality({j \in 1..Len(ret.value.message) :
                                        ret.value.message[j] = ret.value.message[k]}) > 1
                            => ret.value.message[k] = ", "
                  /\ \A i, j \in 1..4 :
                        (i < j /\ UnsetOrEmpty(order[i]) /\ UnsetOrEmpty(order[j])) =>
                            PlaceIn(ret.value.message, order[i])
                                < PlaceIn(ret.value.message, order[j])
            /\ ret.value.tag # "RuntimeError" =>
                  /\ ret.value.tag = "DatabaseConfig"
                  /\ PyStr(ret.value.username) = environ["USERNAME"]
                  /\ PyStr(ret.value.password) = environ["PASS"]
                  /\ PyStr(ret.value.url) = environ["URL"]
                  /\ PyStr(ret.value.database) = environ["DB"]

(* an error that names three missing variables, one unset and two empty *)
C16_Witness ==
    /\ ret.op = "from_env"
    /\ environ["USERNAME"] = PyStr(<<"v", "1">>)
    /\ environ["PASS"] = PyStr(<<>>)
    /\ environ["URL"] = PyNone
    /\ environ["DB"] = PyStr(<<>>)
    /\ ret.value.tag = "RuntimeError"
    /\ ret.value.message =
          <<"Missing required environment variables: ", "PASS", ", ", "URL", ", ", "DB">>

(* a config made of a whitespace value and three ordinary ones *)
C16_WitnessConfig ==
    /\ ret.op = "from_env"
    /\ ret.value.tag = "DatabaseConfig"
    /\ ret.value.username = <<" ">>
    /\ ret.value.database = <<"v", "1">>

----------------------------------------------------------------------------
(* SpecLimit: the rate limits of main.py.  Limiter(key_func=get_remote_address)
   with its default fixed-window strategy counts, per client address and per
   decorated route function, the hits of a window that opens with the first
   hit and lasts the period of the limit. *)

(* main.py 94, 119, 144, 173, 211, 243: the limit of each route *)
RouteLimits ==
    ("/occupation_ids" :> 30) @@ ("/geojson" :> 10) @@ ("/occupation_data" :> 30) @@
    ("/isochrones" :> 30) @@ ("/school_of_study_ids" :> 30) @@
    ("/school_of_study_data" :> 30)

(* "/minute" *)
MinuteSeconds == 60

(* get_remote_address(request) *)
Clients == {"10.0.0.1", "10.0.0.2"}

(* the requests made: one client uses every route, the other one the two
   routes whose limits differ *)
Requests ==
    ({"10.0.0.1"} \X DOMAIN RouteLimits)
        \cup ({"10.0.0.2"} \X {"/occupation_ids", "/geojson"})

(* the counter a hit goes to: the client address and the route function *)
LimitKeyClientOnly(client, route) == <<client, "*">>

LimitKey(client, route) == <<client, route>>

WindowOpen(d, key, t) == DictHas(d, key) /\ t < d[key].expiry

(* one hit of the fixed-window limiter at clock t: the counter is incremented,
   a counter whose window has ended starts again at one *)
LimiterHit(d, key, t) ==
    IF WindowOpen(d, key, t)
    THEN DictPut(d, key, [count |-> d[key].count + 1, expiry |-> d[key].expiry])
    ELSE DictPut(d, key, [count |-> 1, expiry |-> t + MinuteSeconds])

(* the hit passes while the counter does not exceed the amount of the limit *)
WithinLimit(d, key, amount) == d[key].count <= amount

(* an advance within the period of a limit, and one beyond it *)
LimitClockSteps == {40}

InitLimit ==
    /\ cache = EmptyDict /\ InitClock /\ ret = NoCall /\ lastSet = EmptyDict /\ calls = <<>>
    /\ InitSvc /\ InitThr /\ InitHttp /\ InitDb /\ InitExt

LimitRest == UNCHANGED <<cache, lastSet, calls, svcVars, thrVars, httpVars, dbVars,
                         isochrone_table, environ, shadow, reqVars>>

(* history: the minute of a client on a route starts with its first request
   there, and the next one starts with the first request after it has passed *)
MinuteAfter(h, key, t) ==
    IF DictHas(h, key) /\ t < h[key].start + 60
    THEN DictPut(h, key, [start |-> h[key].start, n |-> h[key].n + 1])
    ELSE DictPut(h, key, [start |-> t, n |-> 1])

(* a request of a client to a route: the decorator of the route hits the
   limiter before the handler runs; RateLimitExceeded is answered 429 by
   _rate_limit_exceeded_handler (main.py 59) *)
Request(client, route) ==
    LET key == LimitKey(client, route)
        storage == LimiterHit(limiter_storage, key, now)
        history == MinuteAfter(minute, <<client, route>>, now)
    IN  /\ Cardinality(DOMAIN history) <= MaxKeys
        /\ history[<<client, route>>].n <= RouteLimits[route] + MaxOver
        /\ Cardinality({k \in DOMAIN history : history[k].n > MaxSideHits}) <= 1
        /\ limiter_storage' = storage
        /\ minute' = history
        /\ ret' = [NoCall EXCEPT
                      !.op = "request", !.key = <<client, route>>, !.at = now,
                      !.value = [n |-> history[<<client, route>>].n,
                                 status |-> IF WithinLimit(storage, key, RouteLimits[route])
                                            THEN 200 ELSE 429]]
        /\ UNCHANGED <<now, ticks>>
        /\ LimitRest

(* time passes; the storage of the limiter drops the counters whose window
   has ended *)
TickLimit(seconds) ==
    /\ ticks < MaxLimitTicks
    /\ ticks' = ticks + 1
    /\ now' = now + seconds
    /\ limiter_storage' = [k \in {j \in DOMAIN limiter_storage :
                                      WindowOpen(limiter_storage, j, now + seconds)}
                               |-> limiter_storage[k]]
    /\ minute' = [k \in {j \in DOMAIN minute : now + seconds < minute[j].start + 60}
                      |-> minute[k]]
    /\ ret' = [NoCall EXCEPT !.op = "tick"]
    /\ LimitRest

NextLimit ==
    \/ \E client \in Clients, route \in DOMAIN RouteLimits :
          <<client, route>> \in Requests /\ Request(client, route)
    \/ \E seconds \in LimitClockSteps : TickLimit(seconds)

SpecLimit == InitLimit /\ [][NextLimit]_vars

(* C19: of the requests a client makes to a route within one minute of its
   first one, the first 30 are served and every later one gets 429; on /geojson
   the first 10 are served and every later one gets 429; the count is kept per
   client and per route. *)
C19_RateLimits ==
    ret.op = "request" =>
        LET allowed == IF ret.key[2] = "/geojson" THEN 10 ELSE 30
        IN  /\ ret.value.n <= allowed => ret.value.status = 200
            /\ ret.value.n > allowed => ret.value.status = 429

(* the 11th request of a client to /geojson was refused, and within the same
   minute its request to /occupation_ids is served *)
C19_Witness ==
    /\ ret.op = "request"
    /\ ret.key = <<"10.0.0.1", "/occupation_ids">>
    /\ ret.value.status = 200
    /\ DictHas(minute, <<"10.0.0.1", "/geojson">>)
    /\ minute[<<"10.0.0.1", "/geojson">>].n = 11
    /\ ret.at < minute[<<"10.0.0.1", "/geojson">>].start + 60

(* the 31st request of a client to /occupation_ids within a minute was refused *)
C19_WitnessThirty ==
    /\ ret.op = "request"
    /\ ret.key = <<"10.0.0.2", "/occupation_ids">>
    /\ ret.value.n = 31
    /\ ret.value.status = 429

----------------------------------------------------------------------------
(* SpecRecover: whole requests of one client to /occupation_ids and /geojson:
   the limiter of the route, the session of the request, the handler with its
   service call, and the response.  The database works or fails for each
   request; the cache is in use (TESTING is not set). *)

RecoverClient == "10.0.0.1"

DatabaseError == <<"connection to server at 'db.internal:5432' failed">>

RecoverTables == {EmptyDict, (<<"2">> :> PyStr(<<"N">>))}

RecoverOutcomes == {Returns(1), Raises(DatabaseError)}

(* a clock advance beyond the period of the limits, and one beyond the TTL *)
RecoverClockSteps == {70, CacheTtlSeconds}

TooManyRequests == [status |-> 429, body |-> <<"Rate limit exceeded">>]

(* history: the minute of the client on the route, with the number of its
   requests in it and how many of them failed with 500 *)
MinuteWith(h, key, t, failure) ==
    LET one == IF failure THEN 1 ELSE 0
    IN  IF DictHas(h, key) /\ t < h[key].start + 60
        THEN DictPut(h, key, [start |-> h[key].start, n |-> h[key].n + 1,
                              failed |-> h[key].failed + one])
        ELSE DictPut(h, key, [start |-> t, n |-> 1, failed |-> one])

(* the state after startup_event: init_database has run *)
InitRecover ==
    /\ cache = EmptyDict /\ InitClock /\ ret = NoCall /\ lastSet = EmptyDict /\ calls = <<>>
    /\ InitSvc /\ InitThr /\ InitHttp /\ InitExt
    /\ engine = Engine /\ session_maker = SessionMaker /\ gens = <<>> /\ sessions = <<>>

RecoverRest == UNCHANGED <<lastSet, calls, svcVars, thrVars, httpVars, dbVars,
                           isochrone_table, environ, reqVars>>

(* one request: what the process keeps of it and what the client gets *)
Handle(route, works, admitted, response, expected, left, shadowLeft, session) ==
    LET failure == admitted /\ response.status = 500
        history == MinuteWith(minute, <<RecoverClient, route>>, now, failure)
    IN  /\ limiter_storage' =
              LimiterHit(limiter_storage, LimitKey(RecoverClient, route), now)
        /\ minute' = history
        /\ cache' = left
        /\ shadow' = IF admitted /\ ~failure THEN shadowLeft ELSE shadow
        /\ ret' = [op |-> "request", route |-> route, works |-> works,
                   response |-> IF admitted THEN response ELSE TooManyRequests,
                   expected |-> expected,
                   n |-> history[<<RecoverClient, route>>].n,
                   failed |-> history[<<RecoverClient, route>>].failed,
                   closes |-> session[1].closes]
        /\ UNCHANGED <<now, ticks>>
        /\ RecoverRest

(* the requests explored: a burst on one route at a time *)
Explored(route) ==
    LET history == MinuteWith(minute, <<RecoverClient, route>>, now, FALSE)
    IN  /\ history[<<RecoverClient, route>>].n <= RouteLimits[route] + MaxOver
        /\ Cardinality({k \in DOMAIN history : history[k].n > MaxSideHits}) <= 1

Admitted(route) ==
    WithinLimit(LimiterHit(limiter_storage, LimitKey(RecoverClient, route), now),
                LimitKey(RecoverClient, route), RouteLimits[route])

(* the generator of the request's session is resumed by next() when the
   handler returned and by throw() when the request ended with an exception *)
SessionAfter(status) ==
    IF status = 200 THEN ResumeByNext(<<NewSession>>, 1)
    ELSE ResumeByThrow(<<NewSession>>, 1)

(* GET /occupation_ids, main.py 93-115 *)
request_occupation_ids(dbOk) ==
    /\ Explored("/occupation_ids")
    /\ Initialized(session_maker)
    /\ LET r == OccupationsWithNames(cache, TESTING, table, dbOk, now, 0)
           e == OccupationsWithNames(shadow, TESTING, table, TRUE, now, 0)
           admitted == Admitted("/occupation_ids")
           response == IF r.raised
                       THEN [status |-> 500, body |-> ErrorDetail(DatabaseError)]
                       ELSE [status |-> 200, body |-> r.value]
       IN  Handle("/occupation_ids", dbOk, admitted, response,
                  [status |-> 200, body |-> e.value],
                  IF admitted THEN r.cache ELSE cache,
                  OccupationsWithNames(shadow, TESTING, table, dbOk, now, 0).cache,
                  SessionAfter(IF admitted THEN response.status ELSE 429))

(* GET /geojson, main.py 118-140 *)
request_geojson(outcome) ==
    /\ Explored("/geojson")
    /\ Initialized(session_maker)
    /\ LET admitted == Admitted("/geojson")
           sent == ListHandler("/geojson", outcome, ErrorDetail(outcome.message))
           response == [status |-> sent.status, body |-> sent.body]
       IN  Handle("/geojson", outcome.kind = "returns", admitted, response,
                  [status |-> 200, body |-> Ok(outcome)], cache, shadow,
                  SessionAfter(IF admitted THEN response.status ELSE 429))

(* time passes; the storage of the limiter drops the counters whose window
   has ended *)
TickRecover(seconds) ==
    /\ ticks < MaxLimitTicks
    /\ ticks' = ticks + 1
    /\ now' = now + seconds
    /\ limiter_storage' = [k \in {j \in DOMAIN limiter_storage :
                                      WindowOpen(limiter_storage, j, now + seconds)}
                               |-> limiter_storage[k]]
    /\ minute' = [k \in {j \in DOMAIN minute : now + seconds < minute[j].start + 60}
                      |-> minute[k]]
    /\ ret' = [NoCall EXCEPT !.op = "tick"]
    /\ UNCHANGED <<cache, shadow>>
    /\ RecoverRest

NextRecover ==
    \/ \E dbOk \in BOOLEAN : request_occupation_ids(dbOk)
    \/ \E outcome \in RecoverOutcomes : request_geojson(outcome)
    \/ \E seconds \in RecoverClockSteps : TickRecover(seconds)
    \/ \E tbl \in RecoverTables : LoadOccupationCodes(tbl)

SpecRecover == InitRecover /\ [][NextRecover]_vars

IsRequest == ret.op = "request"

(* C20 as stated: a request made when its service works, which the requests
   of its minute that did not fail leave within the limit of its route, gets
   the response it would have had if no request had failed before. *)
C20_NoLingeringEffect ==
    (IsRequest /\ ret.works /\ ret.n - ret.failed <= RouteLimits[ret.route]) =>
        ret.response = ret.expected

(* C20 amended: a request made when its service works gets the response it
   would have had if no request had failed before, unless the requests of its
   minute, the failed ones included, exceed the limit of its route, and then
   it gets 429; the session of every request is closed once. *)
C20_NoLingeringEffectButLimit ==
    IsRequest =>
        /\ ret.closes = 1
        /\ ret.works =>
              \/ ret.response = ret.expected
              \/ /\ ret.response.status = 429
                 /\ ret.n > RouteLimits[ret.route]
        /\ ret.response.status = 429 => ret.n > RouteLimits[ret.route]

(* after two failed requests to /occupation_ids within the minute, a third one
   finds the database working and is answered with the rows of the table *)
C20_Witness ==
    /\ IsRequest
    /\ ret.route = "/occupation_ids"
    /\ ret.works
    /\ ret.failed >= 2
    /\ ret.response.status = 200
    /\ ret.response.body = PyList(<<[code |-> <<"2">>, name |-> <<"N">>]>>)

----------------------------------------------------------------------------
(* SpecRepo: the repository operations (repositories/base.py,
   occupation.py, school_of_study.py, travel_time.py) and the spatial queries
   of the services (services.py 76-267).  A call is given whether its query
   succeeds; the rows of a spatial query are the rows of tracts, which stand
   for the rows of the category or geoid asked for. *)

(* a result of a Python call: a value, or the class of the exception raised *)
Value(v) == [kind |-> "value", v |-> v, error |-> ""]

Raise(error) == [kind |-> "raise", v |-> PyNone, error |-> error]

(* the texts json.loads decodes to a dict, as their tokens: a text of
   ST_AsGeoJSON is an object with a type and coordinates *)
GeoJsonTexts == {<<"{", "type", ":", "Point", ",", "coordinates", ":", "[0, 0]", "}">>}

(* json.loads(s): TypeError for None, JSONDecodeError for a text that is not
   JSON (the empty text included) *)
JsonLoads(s) ==
    IF s = PyNone THEN Raise("TypeError")
    ELSE IF s.s \in GeoJsonTexts THEN Value([tag |-> "dict", text |-> s.s])
    ELSE Raise("JSONDecodeError")

(* Python truth of an Optional[str]: None and "" are false *)
Truthy(s) == s # PyNone /\ s # PyStr(<<>>)

(* json.loads(row.geometry) if row.geometry else None
   (occupation.py 63, travel_time.py 59 and 95) *)
GeometryIfAny(g) == IF Truthy(g) THEN JsonLoads(g) ELSE Value(PyNone)

(* school_of_study.py 77-89: the same inside try / except (JSONDecodeError,
   TypeError), which logs and takes None *)
GeometryOrNone(g) ==
    IF GeometryIfAny(g).kind = "raise" THEN Value(PyNone) ELSE GeometryIfAny(g)

(* str(int(float(s))) of a digit string: the decimal digits of the number,
   which has no leading zeros *)
RECURSIVE StrIntFloat(_)
StrIntFloat(digits) ==
    IF Len(digits) > 1 /\ Head(digits) = "0" THEN StrIntFloat(Tail(digits)) ELSE digits

(* the spatial queries: how each decodes the geometry and writes the geoid.
   The geometry is json.loads(row.geometry) if row.geometry else None
   (occupation.py 63, travel_time.py 59 and 95), the same inside a try / except
   that takes None (school_of_study.py 77-89), or json.loads(row.geometry)
   (travel_time.py 154, services.py 101, 140, 200, 262); the geoid is
   row.geoid, str(row.geoid) of a str, or str(int(float(row.geoid)))
   (travel_time.py 61 and 97). *)
SpatialQueries ==
    [name \in {"OccupationRepository.get_spatial_data_by_category",
               "SchoolOfStudyRepository.get_spatial_data_by_category",
               "TravelTimeRepository.get_wage_level_data",
               "TravelTimeRepository.get_all_wage_data",
               "TravelTimeRepository.get_isochrones_by_geoid",
               "OccupationService.get_occupation_spatial_data",
               "SpatialService.get_geojson_features",
               "SchoolOfStudyService.get_school_spatial_data",
               "IsochroneService.get_isochrones_by_geoid"} |->
        CASE name = "OccupationRepository.get_spatial_data_by_category" ->
                 [layer |-> "repository", geometry |-> "if any", geoid |-> "row.geoid"]
          [] name = "SchoolOfStudyRepository.get_spatial_data_by_category" ->
                 [layer |-> "repository", geometry |-> "or None", geoid |-> "row.geoid"]
          [] name \in {"TravelTimeRepository.get_wage_level_data",
                       "TravelTimeRepository.get_all_wage_data"} ->
                 [layer |-> "repository", geometry |-> "if any",
                  geoid |-> "str(int(float()))"]
          [] name = "TravelTimeRepository.get_isochrones_by_geoid" ->
                 [layer |-> "repository", geometry |-> "loads", geoid |-> "str()"]
          [] OTHER -> [layer |-> "service", geometry |-> "loads", geoid |-> "str()"]]

FeatureGeometry(name, g) ==
    CASE SpatialQueries[name].geometry = "if any" -> GeometryIfAny(g)
      [] SpatialQueries[name].geometry = "or None" -> GeometryOrNone(g)
      [] OTHER -> JsonLoads(g)

FeatureGeoid(name, geoid) ==
    IF SpatialQueries[name].geoid = "str(int(float()))" THEN StrIntFloat(geoid) ELSE geoid

(* the loop over the rows: the first row whose geometry does not decode ends
   the call with its error *)
RECURSIVE Features(_, _)
Features(name, rows) ==
    IF rows = <<>> THEN Value(<<>>)
    ELSE LET geometry == FeatureGeometry(name, Head(rows).geometry)
             rest == Features(name, Tail(rows))
         IN  IF geometry.kind = "raise" THEN geometry
             ELSE IF rest.kind = "raise" THEN rest
             ELSE Value(<<[geometry |-> geometry.v,
                           geoid |-> FeatureGeoid(name, Head(rows).geoid)]>> \o rest.v)

(* a spatial query: session.query(...).all() or session.execute(...), then the
   loop.  The except SQLAlchemyError of school_of_study.py 106-111 logs and
   raises again. *)
SpatialQuery(name, rows, dbOk) ==
    IF dbOk THEN Features(name, rows) ELSE Raise("SQLAlchemyError")

(* the operations that run one query and return what it gives: base.py 26-115,
   school_of_study.py 24-39 and 113-126, occupation.py 21-42 and 76-82,
   travel_time.py 165-181.  Those with an except SQLAlchemyError log (and roll
   back) and raise again; the others have no handler. *)
QueryOperations ==
    {"BaseRepository.get_by_id", "BaseRepository.get_all", "BaseRepository.create",
     "BaseRepository.update", "BaseRepository.delete",
     "SchoolOfStudyRepository.get_school_of_study_categories",
     "SchoolOfStudyRepository.category_exists",
     "OccupationRepository.get_occupation_categories",
     "OccupationRepository.category_exists",
     "TravelTimeRepository.geoid_exists", "TravelTimeRepository.isochrone_exists"}

QueryOperation(name, dbOk) == IF dbOk THEN Value("result") ELSE Raise("SQLAlchemyError")

(* BaseRepository.get_geojson_geometry, base.py 117-128: except
   (SQLAlchemyError, json.JSONDecodeError) logs and returns None *)
GetGeojsonGeometry(g, dbOk) ==
    IF ~dbOk THEN Value(PyNone)
    ELSE IF ~Truthy(g) THEN Value(PyNone)
    ELSE IF JsonLoads(g).kind = "raise" THEN Value(PyNone)
    ELSE JsonLoads(g)

TractGeoids == {<<"4", "8", "1">>, <<"0", "6", "1">>}

GeometryTexts ==
    {PyNone, PyStr(<<>>),
     PyStr(<<"{", "type", ":", "Point", ",", "coordinates", ":", "[0, 0]", "}">>),
     PyStr(<<"{", "type", ":", "Poi">>)}

TractRows == [geoid : TractGeoids, geometry : GeometryTexts]

InitRepo ==
    /\ cache = EmptyDict /\ InitClock /\ ret = NoCall /\ lastSet = EmptyDict /\ calls = <<>>
    /\ InitSvc /\ InitThr /\ InitHttp /\ InitDb /\ InitExt

RepoRest == UNCHANGED <<cache, now, ticks, lastSet, calls, svcVars, thrVars, httpVars, dbVars,
                        isochrone_table, environ, limiter_storage, minute, shadow,
                        correlation_id_var, dispatches, log>>

(* the batch load writes a row *)
InsertTract(row) ==
    /\ Len(tracts) < MaxRows
    /\ tracts' = Append(tracts, row)
    /\ ret' = [op |-> "insert"]
    /\ RepoRest

repository_spatial_query(name, dbOk) ==
    /\ SpatialQueries[name].layer = "repository"
    /\ ret' = [op |-> "spatial", layer |-> "repository", name |-> name, dbOk |-> dbOk,
               rows |-> tracts, result |-> SpatialQuery(name, tracts, dbOk)]
    /\ UNCHANGED tracts
    /\ RepoRest

service_spatial_query(name, dbOk) ==
    /\ SpatialQueries[name].layer = "service"
    /\ ret' = [op |-> "spatial", layer |-> "service", name |-> name, dbOk |-> dbOk,
               rows |-> tracts, result |-> SpatialQuery(name, tracts, dbOk)]
    /\ UNCHANGED tracts
    /\ RepoRest

repository_operation(name, dbOk) ==
    /\ ret' = [op |-> "operation", layer |-> "repository", name |-> name, dbOk |-> dbOk,
               rows |-> <<>>, result |-> QueryOperation(name, dbOk)]
    /\ UNCHANGED tracts
    /\ RepoRest

get_geojson_geometry(g, dbOk) ==
    /\ ret' = [op |-> "operation", layer |-> "repository",
               name |-> "BaseRepository.get_geojson_geometry", dbOk |-> dbOk,
               rows |-> <<[geoid |-> <<>>, geometry |-> g]>>,
               result |-> GetGeojsonGeometry(g, dbOk)]
    /\ UNCHANGED tracts
    /\ RepoRest

NextRepo ==
    \/ \E row \in TractRows : InsertTract(row)
    \/ \E name \in DOMAIN SpatialQueries, dbOk \in BOOLEAN : repository_spatial_query(name, dbOk)
    \/ \E name \in DOMAIN SpatialQueries, dbOk \in BOOLEAN : service_spatial_query(name, dbOk)
    \/ \E name \in QueryOperations, dbOk \in BOOLEAN : repository_operation(name, dbOk)
    \/ \E g \in GeometryTexts, dbOk \in BOOLEAN : get_geojson_geometry(g, dbOk)

SpecRepo == InitRepo /\ [][NextRepo]_vars

IsRepoCall == ret.op \in {"spatial", "operation"}

(* C21: a repository operation or service query whose database query fails
   raises the database error (SQLAlchemyError) to its caller; none returns a
   normal result instead. *)
C21_FailurePropagates ==
    (IsRepoCall /\ ~ret.dbOk) =>
        (ret.result.kind = "raise" /\ ret.result.error = "SQLAlchemyError")

IsSpatial == ret.op = "spatial" /\ ret.dbOk

Absent(g) == g = PyNone

Corrupt(g) == g # PyNone /\ g.s \notin GeoJsonTexts

(* C22: in every spatial query of the repositories and services, a row with a
   null geometry gives a feature with a null geometry and no error, and a row
   whose geometry is present but is not valid GeoJSON text makes the call fail
   with a decode error. *)
C22_NullGeometryOrDecodeError ==
    IsSpatial =>
        /\ (\A i \in DOMAIN ret.rows : ~Corrupt(ret.rows[i].geometry)) =>
               /\ ret.result.kind = "value"
               /\ \A i \in DOMAIN ret.rows :
                      Absent(ret.rows[i].geometry) => ret.result.v[i].geometry = PyNone
        /\ (\E i \in DOMAIN ret.rows : Corrupt(ret.rows[i].geometry)) =>
               (ret.result.kind = "raise" /\ ret.result.error = "JSONDecodeError")

WageQueries == {"TravelTimeRepository.get_wage_level_data",
                "TravelTimeRepository.get_all_wage_data"}

(* C28: the geoid in each feature of get_all_wage_data and get_wage_level_data
   is the stored geoid digit string unchanged, leading zeros included. *)
C28_GeoidUnchanged ==
    (IsSpatial /\ ret.name \in WageQueries /\ ret.result.kind = "value") =>
        \A i \in DOMAIN ret.rows : ret.result.v[i].geoid = ret.rows[i].geoid

----------------------------------------------------------------------------
(* SpecLog: the structured loggers and the correlation id middleware
   (logging_config.py).  Each request runs dispatch in a task of its own, and
   correlation_id_var is a ContextVar, so each task has its own value of it.
   dispatch suspends once, at await call_next(request), while the handler
   runs and writes log records. *)

(* dict.update(extra) *)
DictUpdate(d, extra) ==
    [k \in (DOMAIN d) \cup (DOMAIN extra) |-> IF k \in DOMAIN extra THEN extra[k] ELSE d[k]]

(* lines 34-38 and 55-59: the fields every record starts with *)
LogData(message, service_name, t) ==
    ("message" :> PyStr(<<message>>)) @@ ("service" :> PyStr(<<service_name>>))
        @@ ("timestamp" :> PyStr(<<ToString(t)>>))

(* if extra: log_data.update(extra) -- None and {} are false *)
WithExtra(log_data, extra) ==
    IF extra = PyNone \/ DOMAIN extra = {} THEN log_data ELSE DictUpdate(log_data, extra)

(* StructuredLogger.info, lines 33-47 *)
StructuredLoggerInfo(message, service_name, extra, context, t) ==
    LET log_data == WithExtra(LogData(message, service_name, t), extra)
    IN  IF Truthy(context) THEN DictPut(log_data, "correlation_id", context) ELSE log_data

(* StructuredLogger.error, lines 49-66 *)
StructuredLoggerError(message, service_name, exc_info, extra, context, t) ==
    LET log_data == WithExtra(LogData(message, service_name, t), extra)
    IN  IF exc_info THEN DictPut(log_data, "exception", PyStr(<<"Traceback">>)) ELSE log_data

(* uuid.uuid4().hex: an id no other call returns *)
Uuid4Hex(task, n) == PyStr(<<"uuid4", task, ToString(n)>>)

(* lines 88-90: the header, or a new id if not correlation_id *)
CorrelationIdAlwaysNew(header, generated) == generated

CorrelationId(header, generated) == IF Truthy(header) THEN header ELSE generated

(* lines 103-105: finally: correlation_id_var.set(None) *)
FinallyReset(context, task) == [context EXCEPT ![task] = PyNone]

Headers == {PyNone, PyStr(<<>>), PyStr(<<"req-7">>)}

Extras == {PyNone, EmptyDict, ("operation" :> PyStr(<<"get_all">>))}

InitLog ==
    /\ cache = EmptyDict /\ InitClock /\ ret = NoCall /\ lastSet = EmptyDict /\ calls = <<>>
    /\ InitSvc /\ InitThr /\ InitHttp /\ InitDb /\ InitExt

LogRest == UNCHANGED <<cache, now, ticks, ret, lastSet, calls, svcVars, thrVars, httpVars, dbVars,
                       isochrone_table, environ, limiter_storage, minute, shadow, tracts>>

(* dispatch up to await call_next(request), lines 85-97 *)
Dispatch(task, header) ==
    /\ dispatches[task].pc \in {"idle", "done", "failed"}
    /\ dispatches[task].n < MaxDispatches
    /\ LET n == dispatches[task].n + 1
           correlation_id == CorrelationId(header, Uuid4Hex(task, n))
       IN  /\ dispatches' = [dispatches EXCEPT ![task] =
                  [pc |-> "handling", n |-> n, header |-> header,
                   correlation_id |-> correlation_id, generated |-> ~Truthy(header),
                   response |-> PyNone, seen |-> PyNone]]
           /\ correlation_id_var' = [correlation_id_var EXCEPT ![task] = correlation_id]
    /\ UNCHANGED log
    /\ LogRest

(* the handler, or code outside a request, writes an info record *)
Info(task, extra) ==
    /\ dispatches[task].pc \in {"idle", "handling"}
    /\ Len(log) < MaxLog
    /\ log' = Append(log, [level |-> "INFO", task |-> task,
                           context |-> correlation_id_var[task],
                           data |-> StructuredLoggerInfo("Request handled", "app.main", extra,
                                                         correlation_id_var[task], now)])
    /\ UNCHANGED <<correlation_id_var, dispatches>>
    /\ LogRest

(* the handler, or code outside a request, writes an error record *)
Error(task, exc_info, extra) ==
    /\ dispatches[task].pc \in {"idle", "handling"}
    /\ Len(log) < MaxLog
    /\ log' = Append(log, [level |-> "ERROR", task |-> task,
                           context |-> correlation_id_var[task],
                           data |-> StructuredLoggerError("Database error in get_all",
                                                          "app.repositories.base", exc_info,
                                                          extra, correlation_id_var[task], now)])
    /\ UNCHANGED <<correlation_id_var, dispatches>>
    /\ LogRest

(* call_next returns a response: lines 97-105 *)
CallNextReturns(task) ==
    /\ dispatches[task].pc = "handling"
    /\ dispatches' = [dispatches EXCEPT ![task] =
           [@ EXCEPT !.pc = "done", !.seen = correlation_id_var[task],
                     !.response = ("X-Correlation-ID" :> dispatches[task].correlation_id)]]
    /\ correlation_id_var' = FinallyReset(correlation_id_var, task)
    /\ UNCHANGED log
    /\ LogRest

(* call_next raises: the finally block runs and the error leaves dispatch *)
CallNextRaises(task) ==
    /\ dispatches[task].pc = "handling"
    /\ dispatches' = [dispatches EXCEPT ![task] =
           [@ EXCEPT !.pc = "failed", !.seen = correlation_id_var[task]]]
    /\ correlation_id_var' = FinallyReset(correlation_id_var, task)
    /\ UNCHANGED log
    /\ LogRest

NextLog ==
    \/ \E task \in Tasks, header \in Headers : Dispatch(task, header)
    \/ \E task \in Tasks, extra \in Extras : Info(task, extra)
    \/ \E task \in Tasks, exc_info \in BOOLEAN, extra \in Extras : Error(task, exc_info, extra)
    \/ \E task \in Tasks : CallNextReturns(task)
    \/ \E task \in Tasks : CallNextRaises(task)

SpecLog == InitLog /\ [][NextLog]_vars

HasCorrelationId(record) ==
    /\ DictHas(record.data, "correlation_id")
    /\ record.data["correlation_id"] = record.context

(* C23: every record written through StructuredLogger.error or
   StructuredLogger.info while a correlation id is set in the context contains
   that correlation id. *)
C23_RecordsCarryCorrelationId ==
    \A i \in 1..Len(log) : log[i].context # PyNone => HasCorrelationId(log[i])

Dispatched(task) == dispatches[task].pc \in {"handling", "done", "failed"}

(* what holds of a dispatch whatever the source of its id: the id is in the
   context while the handler runs, in the X-Correlation-ID header of the
   response, and the context is None once dispatch has ended *)
DispatchKeepsId(task) ==
    LET d == dispatches[task]
    IN  /\ d.pc = "handling" => correlation_id_var[task] = d.correlation_id
        /\ d.pc \in {"done", "failed"} =>
               (d.seen = d.correlation_id /\ correlation_id_var[task] = PyNone)
        /\ d.pc = "done" => d.response["X-Correlation-ID"] = d.correlation_id
        /\ d.generated =>
               \A other \in Tasks \ {task} : dispatches[other].correlation_id # d.correlation_id

(* C24: the correlation id of a request is its X-Correlation-ID header when the
   header is present and a newly generated id otherwise; it is in the context
   before the next handler runs, it is copied into the response's
   X-Correlation-ID header, and the context is None when dispatch ends, also
   when the next handler raises. *)
C24_CorrelationIdOfRequest ==
    \A task \in Tasks :
        Dispatched(task) =>
            /\ dispatches[task].header # PyNone =>
                   dispatches[task].correlation_id = dispatches[task].header
            /\ dispatches[task].header = PyNone => dispatches[task].generated
            /\ DispatchKeepsId(task)

(* C24 as the code has it: the header is used when it is present and not
   empty, and a new id is generated otherwise. *)
C24_CorrelationIdOfNonEmptyHeader ==
    \A task \in Tasks :
        Dispatched(task) =>
            /\ Truthy(dispatches[task].header) =>
                   (/\ dispatches[task].correlation_id = dispatches[task].header
                    /\ ~dispatches[task].generated)
            /\ ~Truthy(dispatches[task].header) =>
                   (/\ dispatches[task].generated
                    /\ dispatches[task].correlation_id # dispatches[task].header
                    /\ Truthy(dispatches[task].correlation_id))
            /\ DispatchKeepsId(task)

(* one request with a header has ended with a response, another without a
   header has ended with an error of its handler *)
C24_Witness ==
    /\ dispatches["task1"].pc = "done"
    /\ dispatches["task1"].header = PyStr(<<"req-7">>)
    /\ dispatches["task1"].response["X-Correlation-ID"] = PyStr(<<"req-7">>)
    /\ dispatches["task2"].pc = "failed"
    /\ dispatches["task2"].header = PyNone
    /\ dispatches["task2"].generated
    /\ correlation_id_var["task2"] = PyNone

----------------------------------------------------------------------------
(* SpecStartup: the startup hook (main.py 82-90), then requests that acquire
   a session through get_db_session.  The environment is the one the process
   was started with. *)

(* main.py 88: not os.getenv("TESTING") -- true when the variable is unset or
   empty *)
NotGetenv(env) == env = Unset \/ env = ""

StartupEnvValues == EnvValues \cup {""}

StartupEnvirons == [EnvNames -> {PyNone, PyStr(<<"v", "1">>)}]

InitStartup ==
    /\ cache = EmptyDict /\ InitClock /\ ret = NoCall /\ lastSet = EmptyDict /\ calls = <<>>
    /\ TESTING \in StartupEnvValues /\ table = EmptyDict /\ dbChanges = 0
    /\ InitThr /\ InitHttp /\ InitDb
    /\ isochrone_table = <<>>
    /\ environ \in StartupEnvirons
    /\ limiter_storage = EmptyDict /\ minute = EmptyDict /\ shadow = EmptyDict
    /\ tracts = <<>>
    /\ correlation_id_var = [task \in Tasks |-> PyNone]
    /\ dispatches = [task \in Tasks |-> NoDispatch]
    /\ log = <<>>

(* startup_event, main.py 82-90: an exception of from_env ends the startup
   and the application serves nothing *)
startup_event ==
    /\ ret.op = "init"
    /\ IF NotGetenv(TESTING) /\ FromEnv(environ).tag = "DatabaseConfig"
       THEN engine' = Engine /\ session_maker' = SessionMaker
       ELSE UNCHANGED <<engine, session_maker>>
    /\ ret' = [op |-> "startup",
               value |-> IF NotGetenv(TESTING) /\ FromEnv(environ).tag # "DatabaseConfig"
                         THEN "failed" ELSE "started"]
    /\ UNCHANGED <<cache, now, ticks, lastSet, calls, svcVars, thrVars, httpVars,
                   gens, sessions, extVars>>

Started == ret.op = "startup" /\ ret.value = "started"

(* a request arrives: Depends(get_db_session) *)
StartupRequest ==
    /\ Started
    /\ get_db_session

NextStartup ==
    \/ startup_event
    \/ StartupRequest
    \/ \E g \in 1..Len(gens) : GenStart(g)
    \/ \E g \in 1..Len(gens) : GenNext(g)
    \/ \E g \in 1..Len(gens) : GenThrow(g)

SpecStartup == InitStartup /\ [][NextStartup]_vars

(* C27: whenever the application has started and is not in testing mode as
   config.py and services.py define it (TESTING is not "1"), the database is
   initialised and no request has failed with "Database not initialized". *)
C27_StartupAgreesOnTesting ==
    (Started /\ ~IsTesting(TESTING)) =>
        /\ Initialized(session_maker)
        /\ \A g \in 1..Len(gens) : gens[g].pc # "RuntimeError"

====
